---- MODULE Spec2Model ----
(***************************************************************************)
(* Model of the Redshift SQL generator (hkchindeko/sqlgen).                *)
(*                                                                         *)
(* The repository holds two implementations of the same generator class:   *)
(*   "pandas" : src/sqlcodegen.py    (pandas rows, f-string assembly)      *)
(*   "jinja"  : src/sqlgencli_v2.py  (polars rows, Jinja2 templates;       *)
(*              src/sqlgencli_v1.py is a truncated copy of the same text)  *)
(* The variable impl says which of the two a run executes.                 *)
(*                                                                         *)
(* Generated SQL text is a sequence of items: a comment line, a statement  *)
(* (a sequence of lines, each a sequence of tokens) or a semicolon.        *)
(***************************************************************************)
EXTENDS Integers, Sequences, FiniteSets, TLC

VARIABLES impl, xl_tables, xl_columns, xl_mappings, xl_broken,
          tables_df, columns_df, mappings_df, errors,
          ddl_file, dml_file, called, ret,
          db, cli, validations, sql_file, env

vars == <<impl, xl_tables, xl_columns, xl_mappings, xl_broken,
          tables_df, columns_df, mappings_df, errors,
          ddl_file, dml_file, called, ret,
          db, cli, validations, sql_file, env>>

(***************************************************************************)
(* Python cell values.  A spreadsheet cell is a text, a number, a boolean, *)
(* empty (None / NaN), or belongs to a column the sheet does not have      *)
(* (Undefined: row.get() gives None, a Jinja lookup gives Undefined).      *)
(***************************************************************************)
None == [t |-> "none", v |-> "None"]
Undefined == [t |-> "undef", v |-> ""]
PyStr(s) == [t |-> "str", v |-> s]
PyInt(s) == [t |-> "int", v |-> s]
PyBool(b) == [t |-> "bool", v |-> IF b THEN "True" ELSE "False"]

\* pd.notna(row.get(key))
notna(x) == x.t \notin {"none", "undef"}

\* Python / Jinja truth value of a cell
truthy(x) ==
    \/ x.t = "str" /\ x.v # ""
    \/ x.t = "int" /\ x.v # "0"
    \/ x.t = "bool" /\ x.v = "True"

\* str(x) and the text "{{ x }}" renders
str(x) == x.v

\* isinstance(x, str)
isinstance_str(x) == x.t = "str"

\* str.upper() on the texts the sheets use
upper(s) ==
    CASE s = "key" -> "KEY"
      [] s = "even" -> "EVEN"
      [] s = "all" -> "ALL"
      [] s = "compound" -> "COMPOUND"
      [] s = "interleaved" -> "INTERLEAVED"
      [] s = "type1" -> "TYPE1"
      [] s = "type2" -> "TYPE2"
      [] OTHER -> s

(***************************************************************************)
(* Text helpers                                                            *)
(***************************************************************************)
Comment(toks) == [kind |-> "comment", lines |-> <<toks>>]
Sql(lines) == [kind |-> "sql", lines |-> lines]
Semi == [kind |-> "semi", lines |-> <<>>]

\* f"{schema}.{table}"
full_name(schema, table) == <<schema, ".", table>>

RECURSIVE Flatten(_)
Flatten(ss) == IF ss = <<>> THEN <<>> ELSE Head(ss) \o Flatten(Tail(ss))

\* sep.join(parts) on token sequences: sep between consecutive parts
RECURSIVE join(_, _)
join(sep, parts) ==
    IF parts = <<>> THEN <<>>
    ELSE IF Len(parts) = 1 THEN Head(parts)
    ELSE Head(parts) \o sep \o join(sep, Tail(parts))

\* one line per part, with a comma closing every line but the last
comma_lines(parts) ==
    [i \in 1..Len(parts) |->
        IF i < Len(parts) THEN Append(parts[i], ",") ELSE parts[i]]

\* DataFrame.sort_values(key) / DataFrame.sort(key): ascending, ties in row order
sort_values(rows, keys) ==
    LET n == Len(rows)
        rank(i) == Cardinality({j \in 1..n :
                      \/ keys[j] < keys[i]
                      \/ keys[j] = keys[i] /\ j < i}) + 1
    IN [r \in 1..n |-> rows[CHOOSE i \in 1..n : rank(i) = r]]

Banner(title) ==
    << Comment(<<title>>),
       Comment(<<"Generated on:", "<now>">>),
       Comment(<<"======">>) >>

(***************************************************************************)
(* generate_ddl, pandas implementation (src/sqlcodegen.py)                 *)
(***************************************************************************)
\* mutant: the filter forgets schema_name
table_columns_by_name(columns, schema, table_name) ==
    LET sel == SelectSeq(columns, LAMBDA c : c.table_name = table_name)
    IN sort_values(sel, [i \in 1..Len(sel) |-> sel[i].column_order])

\* the rows of columns_df of one table, by column_order
table_columns(columns, schema, table_name) ==
    LET sel == SelectSeq(columns,
                 LAMBDA c : c.schema_name = schema /\ c.table_name = table_name)
    IN sort_values(sel, [i \in 1..Len(sel) |-> sel[i].column_order])

col_def_pd(col) ==
    <<col.column_name, col.data_type>>
    \o (IF notna(col.not_null) /\ truthy(col.not_null) THEN <<"NOT NULL">> ELSE <<>>)
    \o (IF notna(col.default_value) THEN <<"DEFAULT", str(col.default_value)>> ELSE <<>>)
    \o (IF notna(col.encode) THEN <<"ENCODE", str(col.encode)>> ELSE <<>>)

dist_props_pd(table) ==
    IF notna(table.dist_style)
    THEN IF upper(str(table.dist_style)) = "KEY" /\ notna(table.dist_key)
         THEN << <<"DISTKEY", "(", str(table.dist_key), ")">> >>
         ELSE << <<"DISTSTYLE", upper(str(table.dist_style))>> >>
    ELSE <<>>

\* table.get('sort_type', 'COMPOUND').upper() raises on an empty cell
sort_type_raises_pd(table) ==
    notna(table.sort_keys) /\ table.sort_type.t = "none"

sort_props_pd(table) ==
    IF notna(table.sort_keys)
    THEN LET sort_type == IF table.sort_type = Undefined THEN "COMPOUND"
                          ELSE upper(str(table.sort_type))
         IN << <<sort_type, "SORTKEY", "(", str(table.sort_keys), ")">> >>
    ELSE <<>>

create_stmt_pd(table, cols) ==
    LET full_table == full_name(table.schema_name, table.table_name)
        col_defs == [i \in 1..Len(cols) |-> col_def_pd(cols[i])]
        table_props == dist_props_pd(table) \o sort_props_pd(table)
    IN Sql( << <<"CREATE TABLE">> \o full_table \o <<"(">> >>
            \o comma_lines(col_defs)
            \o (IF notna(table.primary_key)
                THEN << <<",">>, <<"PRIMARY KEY", "(", str(table.primary_key), ")">> >>
                ELSE <<>>)
            \o << <<")">> >>
            \o table_props )

drop_stmt(full_table) == Sql(<< <<"DROP TABLE IF EXISTS">> \o full_table \o <<"CASCADE">> >>)

comment_stmt(full_table, description) ==
    Sql(<< <<"COMMENT ON TABLE">> \o full_table \o <<"IS", "'", description, "'">> >>)

\* str.replace("'", "''") on the descriptions the sheets use
replace_quote(s) == IF s = "Customer's dimension" THEN "Customer''s dimension" ELSE s

\* the body of the loop over tables_df.iterrows(); acc = [scripts, errs, raised]
RECURSIVE ddl_loop_pd(_, _, _, _)
ddl_loop_pd(tables, columns, i, acc) ==
    IF i > Len(tables) \/ acc.raised THEN acc
    ELSE
      LET table == tables[i]
          full_table == full_name(table.schema_name, table.table_name)
          head == << Comment(<<"Table:">> \o full_table), drop_stmt(full_table), Semi >>
          cols == table_columns(columns, table.schema_name, table.table_name)
      IN IF cols = <<>>
         THEN ddl_loop_pd(tables, columns, i + 1,
                [acc EXCEPT !.scripts = @ \o head,
                            !.errs = Append(@, [msg |-> "No columns defined for",
                                                arg |-> full_table])])
         ELSE IF sort_type_raises_pd(table)
         THEN [acc EXCEPT !.scripts = @ \o head, !.raised = TRUE]
         ELSE ddl_loop_pd(tables, columns, i + 1,
                [acc EXCEPT !.scripts = @ \o head
                     \o << create_stmt_pd(table, cols), Semi >>
                     \o (IF notna(table.description)
                         THEN << comment_stmt(full_table,
                                   replace_quote(str(table.description))), Semi >>
                         ELSE <<>>)])

generate_ddl_pd(tables, columns) ==
    ddl_loop_pd(tables, columns, 1,
        [scripts |-> Banner("AWS Redshift DDL Scripts"), errs |-> <<>>, raised |-> FALSE])

(***************************************************************************)
(* generate_ddl, Jinja implementation (src/sqlgencli_v2.py, DDL_TEMPLATE)  *)
(***************************************************************************)
col_def_pl(col) ==
    <<col.column_name, col.data_type>>
    \o (IF truthy(col.not_null) THEN <<"NOT NULL">> ELSE <<>>)
    \o (IF truthy(col.default_value) THEN <<"DEFAULT", str(col.default_value)>> ELSE <<>>)
    \o (IF truthy(col.encode) THEN <<"ENCODE", str(col.encode)>> ELSE <<>>)

\* mutant: DISTKEY chosen on dist_style alone
dist_props_pl_no_key_test(table) ==
    IF truthy(table.dist_style)
    THEN IF table.dist_style = PyStr("KEY")
         THEN << <<"DISTKEY", "(", str(table.dist_key), ")">> >>
         ELSE << <<"DISTSTYLE", str(table.dist_style)>> >>
    ELSE <<>>

dist_props_pl(table) ==
    IF truthy(table.dist_style)
    THEN IF table.dist_style = PyStr("KEY") /\ truthy(table.dist_key)
         THEN << <<"DISTKEY", "(", str(table.dist_key), ")">> >>
         ELSE << <<"DISTSTYLE", str(table.dist_style)>> >>
    ELSE <<>>

\* {{ table.sort_type|default('COMPOUND') }}: the default replaces Undefined only
sort_props_pl(table) ==
    IF truthy(table.sort_keys)
    THEN LET sort_type == IF table.sort_type = Undefined THEN "COMPOUND"
                          ELSE str(table.sort_type)
         IN << <<sort_type, "SORTKEY", "(", str(table.sort_keys), ")">> >>
    ELSE <<>>

create_stmt_pl(table, cols) ==
    LET full_table == full_name(table.schema_name, table.table_name)
        col_defs == [i \in 1..Len(cols) |-> col_def_pl(cols[i])]
        open == <<"CREATE TABLE">> \o full_table \o <<"(">>
        body == << open >> \o comma_lines(col_defs)
        \* "{%- if table.primary_key %}," puts the comma on the preceding line
        with_pk == IF truthy(table.primary_key)
                   THEN [body EXCEPT ![Len(body)] = Append(@, ",")]
                        \o << <<"PRIMARY KEY", "(", str(table.primary_key), ")">> >>
                   ELSE body
    IN Sql( with_pk \o << <<")">> >> \o dist_props_pl(table) \o sort_props_pl(table) )

table_block_pl(table, columns) ==
    LET full_table == full_name(table.schema_name, table.table_name)
        cols == table_columns(columns, table.schema_name, table.table_name)
    IN << Comment(<<"Table:">> \o full_table) >>
       \o (IF truthy(table.description)
           THEN << Comment(<<"Description:", str(table.description)>>) >> ELSE <<>>)
       \o << drop_stmt(full_table), Semi >>
       \o << create_stmt_pl(table, cols), Semi >>
       \o (IF truthy(table.description)
           THEN << comment_stmt(full_table, replace_quote(str(table.description))), Semi >>
           ELSE <<>>)

generate_ddl_pl(tables, columns) ==
    [scripts |-> Banner("AWS Redshift DDL Scripts")
                 \o Flatten([i \in 1..Len(tables) |-> table_block_pl(tables[i], columns)]),
     errs |-> <<>>, raised |-> FALSE]

(***************************************************************************)
(* Load strategies, pandas implementation (src/sqlcodegen.py)              *)
(***************************************************************************)
qual(alias, col) == <<alias, ".", col>>

\* the literal of a constant_value
const_literal(const_val) ==
    IF isinstance_str(const_val) THEN <<"'", str(const_val), "'">> ELSE <<str(const_val)>>

\* "Determine source expression" in _generate_type1_load and _generate_type2_load
source_expr_pd(row) ==
    IF notna(row.transformation) THEN <<str(row.transformation)>>
    ELSE IF notna(row.source_column) THEN qual("src", str(row.source_column))
    ELSE IF notna(row.constant_value) THEN const_literal(row.constant_value)
    ELSE <<"NULL">>

\* faulty variant: the Insert strategy qualifies the source column as the merges do
source_expr_insert_pd_qualified(row) ==
    IF notna(row.transformation) THEN <<str(row.transformation)>>
    ELSE IF notna(row.source_column) THEN qual("src", str(row.source_column))
    ELSE IF notna(row.constant_value) THEN const_literal(row.constant_value)
    ELSE <<"NULL">>

\* the same chain in _generate_insert_load
source_expr_insert_pd(row) ==
    IF notna(row.transformation) THEN <<str(row.transformation)>>
    ELSE IF notna(row.source_column) THEN <<str(row.source_column)>>
    ELSE IF notna(row.constant_value) THEN const_literal(row.constant_value)
    ELSE <<"NULL">>

is_key_pd(row) == notna(row.is_business_key) /\ truthy(row.is_business_key)

source_table_of(mappings) ==
    full_name(mappings[1].source_schema, mappings[1].source_table)

target_cols_of(mappings) == [i \in 1..Len(mappings) |-> mappings[i].target_column]

names(rows) == [i \in 1..Len(rows) |-> <<rows[i].target_column>>]

\* faulty variant: a join without keys becomes a constant test
business_key_join_or_true(business_keys) ==
    IF business_keys = <<>> THEN <<"1=1">>
    ELSE join(<<"AND">>, [i \in 1..Len(business_keys) |->
             qual("tgt", business_keys[i]) \o <<"=">> \o qual("src", business_keys[i])])

business_key_join(business_keys) ==
    join(<<"AND">>, [i \in 1..Len(business_keys) |->
        qual("tgt", business_keys[i]) \o <<"=">> \o qual("src", business_keys[i])])

CompareCap == 5

first_n(s, n) == SubSeq(s, 1, IF Len(s) < n THEN Len(s) ELSE n)

change_check_of(compare_cols) ==
    LET cs == first_n(compare_cols, CompareCap)
    IN join(<<"OR">>, [i \in 1..Len(cs) |->
        <<"NVL(">> \o qual("tgt", cs[i]) \o <<", 'NULL')", "<>", "NVL(">>
        \o qual("src", cs[i]) \o <<", 'NULL')">>])

Begin == << Sql(<< <<"BEGIN TRANSACTION">> >>), Semi >>
Commit == << Sql(<< <<"COMMIT">> >>), Semi >>

\* the MERGE statement shared by both implementations up to the UPDATE SET lines
merge_stmt(target_table, source_table, exprs, targets, business_keys, filter_note, set_lines) ==
    Sql( << <<"MERGE INTO">> \o target_table \o <<"AS", "tgt">>,
            <<"USING", "(">>,
            <<"SELECT">> >>
         \o comma_lines([i \in 1..Len(exprs) |-> exprs[i] \o <<"AS", targets[i]>>])
         \o << <<"FROM">> \o source_table,
               <<"WHERE", "1=1", filter_note>>,
               <<")", "AS", "src">>,
               <<"ON">> \o business_key_join(business_keys),
               <<"WHEN MATCHED THEN">> >>
         \o set_lines
         \o << qual("tgt", "updated_date") \o <<"=", "GETDATE()">>,
               <<"WHEN NOT MATCHED THEN">>,
               <<"INSERT", "(">> \o join(<<",">>, [i \in 1..Len(targets) |-> <<targets[i]>>])
                   \o <<",", "created_date", ",", "updated_date", ")">>,
               <<"VALUES", "(">> \o join(<<",">>, [i \in 1..Len(targets) |-> qual("src", targets[i])])
                   \o <<",", "GETDATE()", ",", "GETDATE()", ")">> >> )

assignment(c) == qual("tgt", c) \o <<"=">> \o qual("src", c)

_generate_type1_load_pd(mappings, target_table) ==
    LET keys == SelectSeq(mappings, is_key_pd)
        rest == SelectSeq(mappings, LAMBDA r : ~is_key_pd(r))
        update_sets == [i \in 1..Len(rest) |-> assignment(rest[i].target_column)]
        \* {',\n'.join(update_sets)},
        set_lines == << <<"UPDATE SET">> >>
                     \o (IF update_sets = <<>> THEN << <<",">> >>
                         ELSE [i \in 1..Len(update_sets) |-> Append(update_sets[i], ",")])
    IN << Comment(<<"SCD Type 1: Update existing, Insert new">>) >>
       \o Begin
       \o << merge_stmt(target_table, source_table_of(mappings),
                        [i \in 1..Len(mappings) |-> source_expr_pd(mappings[i])],
                        target_cols_of(mappings), target_cols_of(keys),
                        "-- Add incremental filter here", set_lines), Semi >>
       \o Commit

\* the two Type2 statements; src_alias: the inner FROM of Expire carries "AS src"
expire_stmt(target_table, source_table, business_keys, compare_cols, inner_alias) ==
    Sql( << <<"UPDATE">> \o target_table \o <<"AS", "tgt">>,
            <<"SET">>,
            qual("tgt", "effective_end_date") \o <<"=", "DATEADD(day, -1, GETDATE())", ",">>,
            qual("tgt", "is_current") \o <<"=", "FALSE", ",">>,
            qual("tgt", "updated_date") \o <<"=", "GETDATE()">>,
            <<"FROM", "(">>,
            <<"SELECT">> \o join(<<",">>, [i \in 1..Len(business_keys) |->
                                              qual("src", business_keys[i])]),
            <<"FROM">> \o source_table \o inner_alias,
            <<")", "AS", "src">>,
            <<"WHERE">> \o qual("tgt", "is_current") \o <<"=", "TRUE">>,
            <<"AND">> \o business_key_join(business_keys),
            <<"AND", "(">> \o change_check_of(compare_cols) \o <<")">> >> )

current_row_match(target_table, business_keys) ==
    << <<"SELECT 1 FROM">> \o target_table \o <<"AS", "tgt">>,
       <<"WHERE">> \o qual("tgt", "is_current") \o <<"=", "TRUE">>,
       <<"AND">> \o business_key_join(business_keys) >>

insert_versions_stmt(target_table, source_table, exprs, targets, business_keys, compare_cols) ==
    Sql( << <<"INSERT INTO">> \o target_table \o <<"(">>,
            join(<<",">>, [i \in 1..Len(targets) |-> <<targets[i]>>]) \o <<",">>,
            <<"effective_start_date", ",">>,
            <<"effective_end_date", ",">>,
            <<"is_current", ",">>,
            <<"created_date">>,
            <<")">>,
            <<"SELECT">> >>
         \o [i \in 1..Len(exprs) |-> exprs[i] \o <<"AS", targets[i], ",">>]
         \o << <<"GETDATE()", "AS", "effective_start_date", ",">>,
               <<"'9999-12-31'::DATE", "AS", "effective_end_date", ",">>,
               <<"TRUE", "AS", "is_current", ",">>,
               <<"GETDATE()", "AS", "created_date">>,
               <<"FROM">> \o source_table \o <<"AS", "src">>,
               <<"WHERE", "NOT EXISTS", "(">> >>
         \o current_row_match(target_table, business_keys)
         \o << <<")">>, <<"OR EXISTS", "(">> >>
         \o current_row_match(target_table, business_keys)
         \o << <<"AND", "(">> \o change_check_of(compare_cols) \o <<")">>,
               <<")">> >> )

_generate_type2_load_pd(mappings, target_table) ==
    LET keys == target_cols_of(SelectSeq(mappings, is_key_pd))
        compare_cols == target_cols_of(SelectSeq(mappings, LAMBDA r : ~is_key_pd(r)))
        source_table == source_table_of(mappings)
    IN << Comment(<<"SCD Type 2: Track history with effective dates">>) >>
       \o Begin
       \o << Comment(<<"Expire changed records">>),
             expire_stmt(target_table, source_table, keys, compare_cols, <<"AS", "src">>),
             Semi,
             Comment(<<"Insert new versions">>),
             insert_versions_stmt(target_table, source_table,
                 [i \in 1..Len(mappings) |-> source_expr_pd(mappings[i])],
                 target_cols_of(mappings), keys, compare_cols),
             Semi >>
       \o Commit

_generate_insert_load_pd(mappings, target_table) ==
    << Comment(<<"Insert load">>),
       Sql( << <<"INSERT INTO">> \o target_table \o <<"(">>,
               join(<<",">>, names(mappings)),
               <<")">>,
               <<"SELECT">> >>
            \o comma_lines([i \in 1..Len(mappings) |-> source_expr_insert_pd(mappings[i])])
            \o << <<"FROM">> \o source_table_of(mappings),
                  <<"WHERE", "1=1">> >> ),
       Semi,
       Comment(<<"Add filter conditions here">>) >>

(***************************************************************************)
(* Load strategies, Jinja implementation (src/sqlgencli_v2.py)             *)
(***************************************************************************)
source_expr_pl(row) ==
    IF truthy(row.transformation) THEN <<str(row.transformation)>>
    ELSE IF truthy(row.source_column) THEN qual("src", str(row.source_column))
    ELSE IF truthy(row.constant_value) THEN const_literal(row.constant_value)
    ELSE <<"NULL">>

source_expr_insert_pl(row) ==
    IF truthy(row.transformation) THEN <<str(row.transformation)>>
    ELSE IF truthy(row.source_column) THEN <<str(row.source_column)>>
    ELSE IF truthy(row.constant_value) THEN const_literal(row.constant_value)
    ELSE <<"NULL">>

\* faulty variant: no row counts as a business key
is_key_pl_never(row) == FALSE

is_key_pl(row) == truthy(row.is_business_key)

_generate_type1_load_pl(mappings, target_table) ==
    LET keys == SelectSeq(mappings, is_key_pl)
        rest == SelectSeq(mappings, LAMBDA r : ~is_key_pl(r))
        update_cols == [i \in 1..Len(rest) |-> assignment(rest[i].target_column)]
        \* "{%- endfor %}," closes the last line of the list, or UPDATE SET itself
        open == << <<"UPDATE SET">> >> \o comma_lines(update_cols)
        set_lines == [open EXCEPT ![Len(open)] = Append(@, ",")]
    IN << Comment(<<"SCD Type 1: Update existing, Insert new">>),
          Comment(<<"Target:">> \o target_table) >>
       \o Begin
       \o << merge_stmt(target_table, source_table_of(mappings),
                        [i \in 1..Len(mappings) |-> source_expr_pl(mappings[i])],
                        target_cols_of(mappings), target_cols_of(keys),
                        "-- Add incremental filter here (e.g., WHERE load_date > last_load_date)",
                        set_lines), Semi >>
       \o Commit

_generate_type2_load_pl(mappings, target_table) ==
    LET keys == target_cols_of(SelectSeq(mappings, is_key_pl))
        compare_cols == target_cols_of(SelectSeq(mappings, LAMBDA r : ~is_key_pl(r)))
        source_table == source_table_of(mappings)
    IN << Comment(<<"SCD Type 2: Track history with effective dates">>),
          Comment(<<"Target:">> \o target_table) >>
       \o Begin
       \o << Comment(<<"Expire changed records">>),
             expire_stmt(target_table, source_table, keys, compare_cols, <<>>),
             Semi,
             Comment(<<"Insert new versions (changed records and new records)">>),
             insert_versions_stmt(target_table, source_table,
                 [i \in 1..Len(mappings) |-> source_expr_pl(mappings[i])],
                 target_cols_of(mappings), keys, compare_cols),
             Semi >>
       \o Commit

_generate_insert_load_pl(mappings, target_table) ==
    << Comment(<<"Insert load">>),
       Comment(<<"Target:">> \o target_table),
       Sql( << <<"INSERT INTO">> \o target_table \o <<"(">>,
               join(<<",">>, names(mappings)),
               <<")">>,
               <<"SELECT">> >>
            \o comma_lines([i \in 1..Len(mappings) |->
                   source_expr_insert_pl(mappings[i]) \o <<"AS", mappings[i].target_column>>])
            \o << <<"FROM">> \o source_table_of(mappings),
                  <<"WHERE", "1=1">> >> ),
       Semi,
       Comment(<<"Add filter conditions here">>) >>

(***************************************************************************)
(* generate_dml                                                            *)
(***************************************************************************)
\* Series.unique() / DataFrame.unique(): the distinct values, by first appearance
RECURSIVE unique(_)
unique(s) ==
    IF s = <<>> THEN <<>>
    ELSE LET u == unique(SubSeq(s, 1, Len(s) - 1))
             x == s[Len(s)]
         IN IF \E i \in 1..Len(u) : u[i] = x THEN u ELSE Append(u, x)

sort_mappings(sel) == sort_values(sel, [i \in 1..Len(sel) |-> sel[i].target_column_order])

\* f"{scd_type}" in the block comment: an empty cell is NaN in pandas
fmt_pd(x) == IF x.t = "none" THEN "nan" ELSE x.v

load_comment(full_target, scd_text) ==
    << Comment(<<"Load:">> \o full_target \o <<"(SCD", scd_text, ")">>),
       Comment(<<"------">>) >>

\* the rows generate_dml hands to the strategy of one target
table_mappings_pd(mappings, target_table) ==
    sort_mappings(SelectSeq(mappings, LAMBDA m : m.target_table = target_table))

\* faulty variant: the tag is compared without regard to case
dispatch_pd_ignoring_case(scd_type, table_mappings, full_target) ==
    IF scd_type.t = "str" /\ upper(scd_type.v) = "TYPE1"
    THEN _generate_type1_load_pd(table_mappings, full_target)
    ELSE IF scd_type.t = "str" /\ upper(scd_type.v) = "TYPE2"
    THEN _generate_type2_load_pd(table_mappings, full_target)
    ELSE _generate_insert_load_pd(table_mappings, full_target)

\* the if / elif / else on scd_type
dispatch_pd(scd_type, table_mappings, full_target) ==
    IF scd_type = PyStr("TYPE1") THEN _generate_type1_load_pd(table_mappings, full_target)
    ELSE IF scd_type = PyStr("TYPE2") THEN _generate_type2_load_pd(table_mappings, full_target)
    ELSE _generate_insert_load_pd(table_mappings, full_target)

block_pd(mappings, target_table) ==
    LET first == SelectSeq(mappings, LAMBDA m : m.target_table = target_table)
        target_schema == first[1].target_schema
        full_target == full_name(target_schema, target_table)
        table_mappings == table_mappings_pd(mappings, target_table)
        \* ... if 'scd_type' in table_mappings.columns else 'TYPE1'
        scd_type == IF table_mappings[1].scd_type # Undefined
                    THEN table_mappings[1].scd_type ELSE PyStr("TYPE1")
    IN load_comment(full_target, fmt_pd(scd_type))
       \o dispatch_pd(scd_type, table_mappings, full_target)

generate_dml_pd(mappings) ==
    LET targets == unique([i \in 1..Len(mappings) |-> mappings[i].target_table])
    IN [scripts |-> Banner("AWS Redshift DML Scripts (Incremental Load)")
                    \o Flatten([i \in 1..Len(targets) |-> block_pd(mappings, targets[i])]),
        errs |-> <<>>, raised |-> FALSE]

table_mappings_pl(mappings, target) ==
    sort_mappings(SelectSeq(mappings,
        LAMBDA m : m.target_schema = target[1] /\ m.target_table = target[2]))

dispatch_pl(scd_type, table_mappings, full_target) ==
    IF scd_type = PyStr("TYPE1") THEN _generate_type1_load_pl(table_mappings, full_target)
    ELSE IF scd_type = PyStr("TYPE2") THEN _generate_type2_load_pl(table_mappings, full_target)
    ELSE _generate_insert_load_pl(table_mappings, full_target)

block_pl(mappings, target) ==
    LET full_target == full_name(target[1], target[2])
        table_mappings == table_mappings_pl(mappings, target)
        scd_type == table_mappings[1].scd_type
    IN load_comment(full_target, str(scd_type))
       \o dispatch_pl(scd_type, table_mappings, full_target)

unique_targets(mappings) ==
    unique([i \in 1..Len(mappings) |-> <<mappings[i].target_schema, mappings[i].target_table>>])

Perms(n) == {p \in [1..n -> 1..n] : \A i, j \in 1..n : i # j => p[i] # p[j]}

\* order: the row order DataFrame.unique() happens to return (not specified by polars)
generate_dml_pl(mappings, order) ==
    LET targets == unique_targets(mappings)
    IN IF \E i \in 1..Len(mappings) : mappings[i].scd_type = Undefined
       \* select('scd_type') raises on a sheet without the column; caught by the handler
       THEN [scripts |-> <<>>, errs |-> <<[msg |-> "Error generating DML", arg |-> <<>>]>>,
             raised |-> TRUE]
       ELSE [scripts |-> Banner("AWS Redshift DML Scripts (Incremental Load)")
                   \o Flatten([i \in 1..Len(targets) |-> block_pl(mappings, targets[order[i]])]),
             errs |-> <<>>, raised |-> FALSE]

(***************************************************************************)
(* The generator object and its three operations                           *)
(***************************************************************************)
NoneDF == [isNone |-> TRUE, rows |-> <<>>]
DF(rows) == [isNone |-> FALSE, rows |-> rows]
NoFile == [written |-> FALSE, items |-> <<>>]
File(items) == [written |-> TRUE, items |-> items]
Error(msg, arg) == [msg |-> msg, arg |-> arg]

\* an exception that left a generate call uncaught ends the process
Alive == \A op \in DOMAIN ret : ret[op] # "raised"

(***************************************************************************)
(* The command that drives the generator.  cmd "api" stands for a caller   *)
(* that uses the class directly, in any order; "generate" and "validate"   *)
(* are the commands of src/sqlgencli_v2.py, "main" is the __main__ block   *)
(* of src/sqlcodegen.py.  pc is the step the command is at.                *)
(***************************************************************************)
Api ==
    [cmd |-> "api", ddl |-> TRUE, dml |-> TRUE, validate |-> TRUE, dialect |-> "redshift",
     pc |-> "api", exit |-> "none", reported |-> FALSE]

Command(cmd, ddl, dml, validate, dialect) ==
    [cmd |-> cmd, ddl |-> ddl, dml |-> dml, validate |-> validate, dialect |-> dialect,
     pc |-> IF cmd = "validate" THEN "validate" ELSE "load", exit |-> "none",
     reported |-> FALSE]

\* generate validates each file right after writing it, __main__ both at the end
Steps(c) ==
    IF c.cmd = "main"
    THEN <<"load", "ddl", "dml", "validate_ddl", "validate_dml", "end">>
    ELSE <<"load", "ddl", "validate_ddl", "dml", "validate_dml", "end">>

\* faulty variant: the toggles are not looked at
Requested_always(c, step) == TRUE

\* if ddl: ... if validate: ... if dml: ...
Requested(c, step) ==
    CASE step = "ddl" -> c.ddl
      [] step = "validate_ddl" -> c.ddl /\ c.validate
      [] step = "dml" -> c.dml
      [] step = "validate_dml" -> c.dml /\ c.validate
      [] OTHER -> TRUE

NextStep(c, step) ==
    LET s == Steps(c)
        at == CHOOSE k \in 1..Len(s) : s[k] = step
        nxt == CHOOSE k \in (at + 1)..Len(s) :
                   Requested(c, s[k]) /\ \A m \in (at + 1)..(k - 1) : ~Requested(c, s[m])
    IN s[nxt]

\* the operation is the one the command calls next
Turn(op) == cli.cmd = "api" \/ cli.pc = op

\* the command after a call returned True or False or raised: a failed call ends
\* the run with code 1; __main__ prints the errors before exit(1)
After(op, outcome) ==
    IF cli.cmd = "api" THEN cli
    ELSE IF outcome = "True" THEN [cli EXCEPT !.pc = NextStep(cli, op)]
    ELSE [cli EXCEPT !.pc = "done", !.exit = "1",
                     !.reported = (cli.cmd = "main" /\ outcome = "False")]

Outcome(r) == IF ~r.raised THEN "True" ELSE IF impl = "pandas" THEN "raised" ELSE "False"

\* writing the output file fails when the file system refuses it: inside the try
\* block of the Jinja implementation, uncaught in the pandas implementation
write_text(r, name, msg) ==
    IF r.raised \/ name \notin env.unwritable THEN r
    ELSE [scripts |-> <<>>,
          errs |-> r.errs \o (IF impl = "jinja" THEN <<Error(msg, <<>>)>> ELSE <<>>),
          raised |-> TRUE]

\* faulty variant: loading starts a new error list
load_definitions_clearing ==
    /\ Alive
    /\ Turn("load")
    /\ "load" \notin called
    /\ called' = called \cup {"load"}
    /\ tables_df' = IF xl_broken = "Tables" THEN tables_df ELSE DF(xl_tables)
    /\ columns_df' = IF xl_broken \in {"Tables", "Columns"} THEN columns_df ELSE DF(xl_columns)
    /\ mappings_df' = IF xl_broken = "none" THEN DF(xl_mappings) ELSE mappings_df
    /\ errors' = IF xl_broken = "none" THEN <<>>
                 ELSE <<Error("Error loading Excel files", <<xl_broken>>)>>
    /\ ret' = [ret EXCEPT !.load = IF xl_broken = "none" THEN "True" ELSE "False"]
    /\ cli' = After("load", IF xl_broken = "none" THEN "True" ELSE "False")
    /\ UNCHANGED <<impl, xl_tables, xl_columns, xl_mappings, xl_broken, ddl_file, dml_file, db,
                   validations, sql_file, env>>

\* read_excel fails on the sheet xl_broken names; the assignments before it stay
load_definitions ==
    /\ Alive
    /\ Turn("load")
    /\ "load" \notin called
    /\ called' = called \cup {"load"}
    /\ tables_df' = IF xl_broken = "Tables" THEN tables_df ELSE DF(xl_tables)
    /\ columns_df' = IF xl_broken \in {"Tables", "Columns"} THEN columns_df ELSE DF(xl_columns)
    /\ mappings_df' = IF xl_broken = "none" THEN DF(xl_mappings) ELSE mappings_df
    /\ errors' = IF xl_broken = "none" THEN errors
                 ELSE Append(errors, Error("Error loading Excel files", <<xl_broken>>))
    /\ ret' = [ret EXCEPT !.load = IF xl_broken = "none" THEN "True" ELSE "False"]
    /\ cli' = After("load", IF xl_broken = "none" THEN "True" ELSE "False")
    /\ UNCHANGED <<impl, xl_tables, xl_columns, xl_mappings, xl_broken, ddl_file, dml_file, db,
                   validations, sql_file, env>>

generate_ddl ==
    /\ Alive
    /\ Turn("ddl")
    /\ "load" \in called
    /\ "ddl" \notin called
    /\ called' = called \cup {"ddl"}
    /\ IF tables_df.isNone \/ columns_df.isNone
       THEN /\ errors' = Append(errors, Error("Data not loaded", <<>>))
            /\ ret' = [ret EXCEPT !.ddl = "False"]
            /\ cli' = After("ddl", "False")
            /\ UNCHANGED ddl_file
       ELSE LET r == write_text(IF impl = "pandas"
                                THEN generate_ddl_pd(tables_df.rows, columns_df.rows)
                                ELSE generate_ddl_pl(tables_df.rows, columns_df.rows),
                                "ddl", "Error generating DDL")
            IN /\ errors' = errors \o r.errs
               /\ ddl_file' = IF r.raised THEN ddl_file ELSE File(r.scripts)
               /\ ret' = [ret EXCEPT !.ddl = Outcome(r)]
               /\ cli' = After("ddl", Outcome(r))
    /\ UNCHANGED <<impl, xl_tables, xl_columns, xl_mappings, xl_broken,
                   tables_df, columns_df, mappings_df, dml_file, db,
                   validations, sql_file, env>>

generate_dml ==
    /\ Alive
    /\ Turn("dml")
    /\ "load" \in called
    /\ "dml" \notin called
    /\ called' = called \cup {"dml"}
    /\ IF mappings_df.isNone
       THEN /\ errors' = Append(errors, Error("Mappings not loaded", <<>>))
            /\ ret' = [ret EXCEPT !.dml = "False"]
            /\ cli' = After("dml", "False")
            /\ UNCHANGED dml_file
       ELSE \E order \in Perms(Len(unique_targets(mappings_df.rows))) :
            LET r == write_text(IF impl = "pandas"
                                THEN generate_dml_pd(mappings_df.rows)
                                ELSE generate_dml_pl(mappings_df.rows, order),
                                "dml", "Error generating DML")
            IN /\ errors' = errors \o r.errs
               /\ dml_file' = IF r.raised THEN dml_file ELSE File(r.scripts)
               /\ ret' = [ret EXCEPT !.dml = Outcome(r)]
               /\ cli' = After("dml", Outcome(r))
    /\ UNCHANGED <<impl, xl_tables, xl_columns, xl_mappings, xl_broken,
                   tables_df, columns_df, mappings_df, ddl_file, db,
                   validations, sql_file, env>>

(***************************************************************************)
(* The validator: validate_sql (src/sqlcodegen.py) and validate_sql_file   *)
(* (src/sqlgencli_v2.py).  parse_one belongs to the sqlglot library; its   *)
(* verdicts are given by env.parser, which names for every dialect the     *)
(* statements (by their opening keyword) that dialect rejects.             *)
(***************************************************************************)
\* sql_content.split(';')
RECURSIVE split(_)
split(items) ==
    IF \A k \in 1..Len(items) : items[k].kind # "semi" THEN <<items>>
    ELSE LET k == CHOOSE n \in 1..Len(items) :
                      items[n].kind = "semi" /\ \A m \in 1..(n - 1) : items[m].kind # "semi"
         IN <<SubSeq(items, 1, k - 1)>> \o split(SubSeq(items, k + 1, Len(items)))

\* faulty variant: fragments that open with a comment line are kept
statements_with_comments(items) ==
    SelectSeq(split(items), LAMBDA frag : frag # <<>>)

\* ... if s.strip() and not s.strip().startswith('--')
statements(items) ==
    SelectSeq(split(items), LAMBDA frag : frag # <<>> /\ frag[1].kind # "comment")

RECURSIVE chars(_)
chars(toks) == IF toks = <<>> THEN 0 ELSE Len(Head(toks)) + chars(Tail(toks))

\* len(stmt): the tokens of every line, a blank or line break between two tokens
len(frag) ==
    LET toks == Flatten(Flatten([k \in 1..Len(frag) |->
                    IF frag[k].kind = "comment"
                    THEN << <<"--">> \o frag[k].lines[1] >> ELSE frag[k].lines]))
    IN chars(toks) + (IF toks = <<>> THEN 0 ELSE Len(toks) - 1)

\* parse_one(stmt, dialect=...) raises
parse_raises(stmt, dialect) == stmt[1].lines[1][1] \in env.parser[dialect]

Ascending(S) ==
    [k \in 1..Cardinality(S) |-> CHOOSE i \in S : Cardinality({j \in S : j < i}) = k - 1]

\* mutant: success as soon as one statement parsed
validate_sql_file_some_valid(items, dialect) ==
    LET stmts == statements(items)
        parsed == { i \in 1..Len(stmts) : len(stmts[i]) >= 10 }
        bad == { i \in parsed : parse_raises(stmts[i], dialect) }
    IN [parsed |-> [k \in 1..Cardinality(parsed) |-> stmts[Ascending(parsed)[k]]],
        valid_count |-> Cardinality(parsed \ bad),
        error_count |-> Cardinality(bad),
        errs |-> [k \in 1..Cardinality(bad) |->
                     Error("Statement validation error", <<Ascending(bad)[k]>>)],
        ok |-> Cardinality(parsed \ bad) > 0]

\* the body of the validator on a file that could be read
validate_sql_file(items, dialect) ==
    LET stmts == statements(items)
        parsed == { i \in 1..Len(stmts) : len(stmts[i]) >= 10 }
        bad == { i \in parsed : parse_raises(stmts[i], dialect) }
    IN [parsed |-> [k \in 1..Cardinality(parsed) |-> stmts[Ascending(parsed)[k]]],
        valid_count |-> Cardinality(parsed \ bad),
        error_count |-> Cardinality(bad),
        errs |-> [k \in 1..Cardinality(bad) |->
                     Error("Statement validation error", <<Ascending(bad)[k]>>)],
        ok |-> Cardinality(bad) = 0]

Validation(name, file, r) ==
    [file |-> name, items |-> file.items, requested |-> cli.dialect, dialect |-> "redshift",
     parsed |-> r.parsed, valid_count |-> r.valid_count, error_count |-> r.error_count,
     ok |-> r.ok]

ValidateStep(name) == IF name = "ddl" THEN "validate_ddl" ELSE "validate_dml"

\* a validation of a generated file: a step of generate or __main__, which do
\* not look at its result, or a call by a user of the class.  validate_sql
\* appends its diagnostics to self.errors, validate_sql_file keeps them in a
\* local list; a file that cannot be opened ends in the outer handler
validate_sql ==
    /\ Alive
    /\ \E name \in {"ddl", "dml"} :
          LET file == IF name = "ddl" THEN ddl_file ELSE dml_file
              r == validate_sql_file(file.items, "redshift")
          IN /\ Turn(ValidateStep(name))
             /\ ValidateStep(name) \notin called
             /\ called' = called \cup {ValidateStep(name)}
             /\ IF file.written
                THEN /\ validations' = Append(validations, Validation(name, file, r))
                     /\ errors' = IF impl = "pandas" THEN errors \o r.errs ELSE errors
                ELSE /\ validations' = validations
                     /\ errors' = IF impl = "pandas"
                                  THEN Append(errors, Error("Validation error", <<name>>))
                                  ELSE errors
             /\ cli' = After(ValidateStep(name), "True")
    /\ UNCHANGED <<impl, xl_tables, xl_columns, xl_mappings, xl_broken,
                   tables_df, columns_df, mappings_df, ddl_file, dml_file, ret, db,
                   sql_file, env>>

\* the validate command: exit code 1 for a missing file or a failed validation
validate ==
    /\ cli.cmd = "validate"
    /\ cli.pc = "validate"
    /\ IF ~sql_file.written
       THEN /\ cli' = [cli EXCEPT !.pc = "done", !.exit = "1"]
            /\ UNCHANGED validations
       ELSE LET r == validate_sql_file(sql_file.items, "redshift")
            IN /\ validations' = Append(validations, Validation("sql", sql_file, r))
               /\ cli' = [cli EXCEPT !.pc = "done", !.exit = IF r.ok THEN "0" ELSE "1"]
    /\ UNCHANGED <<impl, xl_tables, xl_columns, xl_mappings, xl_broken,
                   tables_df, columns_df, mappings_df, errors, ddl_file, dml_file, called, ret,
                   db, sql_file, env>>

\* the end of generate or __main__: __main__ prints the errors; both fall off the
\* end, which is exit code 0
finish ==
    /\ Alive
    /\ cli.pc = "end"
    /\ cli' = [cli EXCEPT !.pc = "done", !.exit = "0", !.reported = (cli.cmd = "main")]
    /\ UNCHANGED <<impl, xl_tables, xl_columns, xl_mappings, xl_broken,
                   tables_df, columns_df, mappings_df, errors, ddl_file, dml_file, called, ret,
                   db, validations, sql_file, env>>

Next == load_definitions \/ generate_ddl \/ generate_dml

NextCLI == load_definitions \/ generate_ddl \/ generate_dml \/ validate_sql \/ validate \/ finish

(***************************************************************************)
(* The metadata sheets a run starts from                                   *)
(***************************************************************************)
MaxOrder == 3

Impls == {"pandas", "jinja"}

MkTable(schema, name, a) ==
    [schema_name |-> schema, table_name |-> name, description |-> a.description,
     primary_key |-> a.primary_key, dist_style |-> a.dist_style, dist_key |-> a.dist_key,
     sort_keys |-> a.sort_keys, sort_type |-> a.sort_type]

MkColumn(schema, table, name, order, type, a) ==
    [schema_name |-> schema, table_name |-> table, column_name |-> name,
     column_order |-> order, data_type |-> type, not_null |-> a.not_null,
     default_value |-> a.default_value, encode |-> a.encode]

TableAttrs ==
    [description : {None, PyStr("Customer's dimension")},
     primary_key : {None, PyStr("customer_key")},
     dist_style : {None, PyStr("KEY"), PyStr("EVEN"), PyStr("ALL")},
     dist_key : {None, PyStr("customer_key")},
     sort_keys : {None, PyStr("customer_id")},
     sort_type : {Undefined, None, PyStr("COMPOUND"), PyStr("INTERLEAVED")}]

\* the attributes of the sample sheet's dim_customer row
SampleTableAttrs ==
    [description |-> PyStr("Customer dimension table"), primary_key |-> PyStr("customer_key"),
     dist_style |-> PyStr("KEY"), dist_key |-> PyStr("customer_key"),
     sort_keys |-> PyStr("customer_id"), sort_type |-> PyStr("COMPOUND")]

PlainTableAttrs(sort_type) ==
    [description |-> None, primary_key |-> None, dist_style |-> None, dist_key |-> None,
     sort_keys |-> None, sort_type |-> sort_type]

ColumnAttrs ==
    [not_null : {PyBool(TRUE), PyBool(FALSE)},
     default_value : {None, PyStr("GETDATE()"), PyInt("0"), PyBool(FALSE)},
     encode : {None, PyStr("LZO")}]

KeyColumnAttrs == [not_null |-> PyBool(TRUE), default_value |-> None, encode |-> None]
PlainColumnAttrs == [not_null |-> PyBool(FALSE), default_value |-> None, encode |-> None]

\* column_order is unique within a table (the sheets' contract)
UniqueOrders(columns) ==
    \A i, j \in 1..Len(columns) :
        (i # j /\ columns[i].schema_name = columns[j].schema_name
               /\ columns[i].table_name = columns[j].table_name)
        => columns[i].column_order # columns[j].column_order

\* one or two tables; the second shares the table name under another schema
TableLayouts(a) ==
    LET t1 == MkTable("dwh", "dim_customer", a)
        t2 == MkTable("stg", "dim_customer",
                  PlainTableAttrs(IF a.sort_type = Undefined THEN Undefined ELSE None))
    IN { <<t1>>, <<t1, t2>>, <<t2, t1>> }

\* the columns of the spec's dim_customer scenario, not in column_order
ScenarioColumns ==
    << MkColumn("dwh", "dim_customer", "customer_id", 2, "VARCHAR(50)", PlainColumnAttrs),
       MkColumn("stg", "dim_customer", "customer_key", 1, "BIGINT", KeyColumnAttrs),
       MkColumn("dwh", "dim_customer", "customer_key", 1, "BIGINT", KeyColumnAttrs) >>

\* sheets that vary the table row
TableSheets ==
    { <<tables, ScenarioColumns>> : tables \in UNION { TableLayouts(a) : a \in TableAttrs } }

ColumnTables == { <<"dwh", "dim_customer">>, <<"stg", "dim_customer">> }

\* a column record of the Columns sheet, or <<>> when the sheet does not hold it
ColumnChoices(name, type, attrs) ==
    { <<>> } \cup
    { << MkColumn(t[1], t[2], name, o, type, a) >> :
        t \in ColumnTables, o \in 1..MaxOrder, a \in attrs }

\* sheets that vary the column rows under two tables of the same name
ColumnSheets ==
    { sh \in
        { << << MkTable("dwh", "dim_customer", SampleTableAttrs),
                MkTable("stg", "dim_customer", PlainTableAttrs(PyStr("COMPOUND"))) >>,
             c1 \o c2 \o c3 >> :
          c1 \in ColumnChoices("email", "VARCHAR(200)", ColumnAttrs),
          c2 \in ColumnChoices("customer_id", "VARCHAR(50)", {PlainColumnAttrs}),
          c3 \in ColumnChoices("customer_key", "BIGINT", {KeyColumnAttrs}) }
      : UniqueOrders(sh[2]) }

MkMapping(target, col, order, source, a) ==
    [target_schema |-> target[1], target_table |-> target[2], target_column |-> col,
     target_column_order |-> order, source_schema |-> source[1], source_table |-> source[2],
     source_column |-> a.source_column, transformation |-> a.transformation,
     constant_value |-> a.constant_value, is_business_key |-> a.is_business_key,
     scd_type |-> a.scd_type]

\* the sample sheet's mappings of dim_customer
SampleMappings ==
    << MkMapping(<<"dwh", "dim_customer">>, "customer_key", 1, <<"staging", "stg_customers">>,
          [source_column |-> None, transformation |-> PyStr("ROW_NUMBER() OVER (ORDER BY cust_id)"),
           constant_value |-> None, is_business_key |-> PyBool(FALSE), scd_type |-> PyStr("TYPE1")]),
       MkMapping(<<"dwh", "dim_customer">>, "customer_id", 2, <<"staging", "stg_customers">>,
          [source_column |-> PyStr("cust_id"), transformation |-> None,
           constant_value |-> None, is_business_key |-> PyBool(TRUE), scd_type |-> PyStr("TYPE1")]) >>

SampleSheets ==
    << << MkTable("dwh", "dim_customer", SampleTableAttrs) >>,
       << MkColumn("dwh", "dim_customer", "customer_key", 1, "BIGINT", KeyColumnAttrs),
          MkColumn("dwh", "dim_customer", "customer_id", 2, "VARCHAR(50)", PlainColumnAttrs) >> >>

\* the warehouse the generated statements are later run on; none while generating
NoDb == [source |-> <<>>, before |-> <<>>, target |-> <<>>, status |-> "none"]

Dialects == {"redshift", "mysql"}

InitObject ==
    /\ tables_df = NoneDF
    /\ columns_df = NoneDF
    /\ mappings_df = NoneDF
    /\ errors = <<>>
    /\ ddl_file = NoFile
    /\ dml_file = NoFile
    /\ called = {}
    /\ ret = [load |-> "none", ddl |-> "none", dml |-> "none"]
    /\ validations = <<>>

\* a caller of the class, a parser that accepts everything, files that can be written
InitApi ==
    /\ cli = Api
    /\ sql_file = NoFile
    /\ env = [parser |-> [d \in Dialects |-> {}], unwritable |-> {}]
    /\ InitObject

Sheets == {"Tables", "Columns", "Mappings"}

\* runs that vary the Tables and Columns sheets
InitDDL ==
    /\ impl \in Impls
    /\ \/ /\ \E sh \in TableSheets \cup ColumnSheets :
                /\ xl_tables = sh[1]
                /\ xl_columns = sh[2]
          /\ xl_broken = "none"
       \/ /\ xl_tables = SampleSheets[1]
          /\ xl_columns = SampleSheets[2]
          /\ xl_broken \in Sheets
    /\ xl_mappings = SampleMappings
    /\ db = NoDb
    /\ InitApi

SpecDDL == InitDDL /\ [][Next]_vars

Staging == <<"staging", "stg_customers">>

ScdTags ==
    { PyStr("TYPE1"), PyStr("TYPE2"), PyStr("INSERT"), PyStr("FOO"), PyStr("type1"),
      None, Undefined }

ExprAttrs ==
    [source_column : {None, PyStr("name")},
     transformation : {None, PyStr("UPPER(name)")},
     constant_value : {None, PyStr("N/A"), PyStr(""), PyInt("0"), PyInt("42"), PyBool(FALSE)},
     is_business_key : {PyBool(TRUE), PyBool(FALSE)}]

WithScd(a, scd) ==
    [source_column |-> a.source_column, transformation |-> a.transformation,
     constant_value |-> a.constant_value, is_business_key |-> a.is_business_key,
     scd_type |-> scd]

FromColumn(col, key) ==
    [source_column |-> PyStr(col), transformation |-> None, constant_value |-> None,
     is_business_key |-> PyBool(key)]

FromTransformation(expr, key) ==
    [source_column |-> None, transformation |-> PyStr(expr), constant_value |-> None,
     is_business_key |-> PyBool(key)]

\* one target, one tag for the whole sheet; the first sheet row varies its expression
ExprSheets ==
    { << MkMapping(<<"dwh", "dim_customer">>, "customer_name", o, Staging, WithScd(a, scd)),
         MkMapping(<<"dwh", "dim_customer">>, "customer_id", 2, Staging,
                   WithScd(FromColumn("cust_id", TRUE), scd)) >> :
      o \in {1, MaxOrder}, a \in ExprAttrs, scd \in ScdTags }

Targets == { <<"dwh", "dim_customer">>, <<"stg", "dim_customer">>, <<"dwh", "dim_product">> }

UniqueMappingOrders(mappings) ==
    \A i, j \in 1..Len(mappings) :
        (i # j /\ mappings[i].target_schema = mappings[j].target_schema
               /\ mappings[i].target_table = mappings[j].target_table)
        => mappings[i].target_column_order # mappings[j].target_column_order

\* three rows spread over up to three targets, each row with its own tag
GroupSheets ==
    { sh \in
        { << MkMapping(<<"dwh", "dim_customer">>, "customer_id", o1, Staging,
                       WithScd(FromColumn("cust_id", k1), s1)),
             MkMapping(t2, "customer_name", o2, Staging,
                       WithScd(FromTransformation("UPPER(name)", k2), s2)),
             MkMapping(t3, "email", o3, Staging,
                       WithScd(FromColumn("email_address", FALSE), s3)) >> :
          o1 \in 1..MaxOrder, o2 \in 1..MaxOrder, o3 \in 1..MaxOrder,
          t2 \in Targets, t3 \in Targets, k1 \in BOOLEAN, k2 \in {FALSE},
          s1 \in {PyStr("TYPE1"), PyStr("TYPE2"), PyStr("FOO")},
          s2 \in {PyStr("TYPE1"), PyStr("FOO")},
          s3 \in {PyStr("TYPE1")} }
      : UniqueMappingOrders(sh) }

MaxNonKey == 6

KeyNames == <<"b1", "b2">>
NonKeyNames == <<"c1", "c2", "c3", "c4", "c5", "c6", "c7", "c8">>

Reverse(s) == [i \in 1..Len(s) |-> s[Len(s) + 1 - i]]

\* one target with nk business keys and n other columns under one tag; by
\* target_column_order the keys lie between the other columns: c1 b1 c2 b2 c3 ...
WideRows(nk, n, scd) ==
    [j \in 1..nk |-> MkMapping(<<"dwh", "dim_customer">>, KeyNames[j], 2 * j, Staging,
                               WithScd(FromColumn(KeyNames[j], TRUE), scd))]
    \o [i \in 1..n |-> MkMapping(<<"dwh", "dim_customer">>, NonKeyNames[i], 2 * i - 1, Staging,
                                 WithScd(FromColumn(NonKeyNames[i], FALSE), scd))]

\* ... the sheet rows in either direction, never in target_column_order
WideSheets ==
    { IF rev THEN Reverse(WideRows(nk, n, scd)) ELSE WideRows(nk, n, scd) :
        nk \in 0..Len(KeyNames), n \in 1..MaxNonKey,
        scd \in {PyStr("TYPE1"), PyStr("TYPE2")}, rev \in BOOLEAN }

Landing == <<"landing", "raw_customers">>

\* three rows in one group or two; every row with its own tag and its own source
MixedSheets ==
    { sh \in
        { << MkMapping(<<"dwh", "dim_customer">>, "customer_id", o1, f1,
                       WithScd(FromColumn("cust_id", TRUE), s1)),
             MkMapping(t2, "customer_name", o2, f2,
                       WithScd(FromColumn("name", FALSE), s2)),
             MkMapping(<<"dwh", "dim_customer">>, "email", o3, f3,
                       WithScd(FromColumn("email_address", FALSE), s3)) >> :
          o1 \in 1..MaxOrder, o2 \in 1..MaxOrder, o3 \in 1..MaxOrder,
          t2 \in { <<"dwh", "dim_customer">>, <<"stg", "dim_customer">> },
          f1 \in {Staging, Landing}, f2 \in {Staging, Landing}, f3 \in {Staging, Landing},
          s1 \in {PyStr("TYPE1"), PyStr("TYPE2")},
          s2 \in {PyStr("TYPE1"), PyStr("TYPE2")},
          s3 \in {PyStr("TYPE1"), PyStr("INSERT")} }
      : UniqueMappingOrders(sh) }

AuditNames ==
    {"created_date", "updated_date", "effective_start_date", "effective_end_date", "is_current"}

\* one target with a business key and one more column that bears the name of a
\* column the load statements add themselves
AuditSheets ==
    { << MkMapping(<<"dwh", "dim_customer">>, "customer_id", 1, Staging,
                   WithScd(FromColumn("cust_id", TRUE), scd)),
         MkMapping(<<"dwh", "dim_customer">>, n, 2, Staging,
                   WithScd(FromColumn(n, FALSE), scd)) >> :
      n \in AuditNames, scd \in {PyStr("TYPE1"), PyStr("TYPE2")} }

\* runs that vary the Mappings sheet
InitDML ==
    /\ impl \in Impls
    /\ xl_tables = SampleSheets[1]
    /\ xl_columns = SampleSheets[2]
    /\ \/ /\ xl_mappings \in ExprSheets \cup GroupSheets \cup WideSheets \cup MixedSheets
                              \cup AuditSheets
          /\ xl_broken = "none"
       \/ /\ xl_mappings = SampleMappings
          /\ xl_broken \in Sheets
    /\ db = NoDb
    /\ InitApi

SpecDML == InitDML /\ [][Next]_vars

(***************************************************************************)
(* Runs of the commands.  __main__ writes the sample workbooks itself and  *)
(* then works on them; generate and validate take the files they are       *)
(* given.  The sample Tables sheet holds fact_sales, which has no row in   *)
(* the Columns sheet.                                                      *)
(***************************************************************************)
FactSalesAttrs ==
    [description |-> PyStr("Sales fact table"), primary_key |-> PyStr("sales_key"),
     dist_style |-> PyStr("KEY"), dist_key |-> PyStr("customer_key"),
     sort_keys |-> PyStr("sale_date, customer_key"), sort_type |-> PyStr("COMPOUND")]

MainTables == SampleSheets[1] \o << MkTable("dwh", "fact_sales", FactSalesAttrs) >>

\* the statements a parser may reject, by opening keyword
Rejectable == {"CREATE TABLE", "MERGE INTO"}

Parsers == [Dialects -> SUBSET Rejectable]

CreateT == Sql(<< <<"CREATE TABLE", "t", "(", "a", "INT", ")">> >>)
MergeT == Sql(<< <<"MERGE INTO", "t", "USING", "s", "ON", "t.a = s.a">> >>)

\* texts handed to the validate command: two statements; a fragment that opens
\* with a comment and a short one; no text; one statement without semicolon;
\* a statement of 10 characters, one of 9 and an empty fragment
InputTexts ==
    { << CreateT, Semi, MergeT, Semi >>,
      << Comment(<<"header">>), CreateT, Semi, Sql(<< <<"COMMIT">> >>), Semi >>,
      << >>,
      << MergeT >>,
      << Sql(<< <<"MERGE INTO">> >>), Semi, Sql(<< <<"SELECT", "12">> >>), Semi, Semi >> }

InitCLI ==
    /\ impl \in Impls
    /\ xl_columns = SampleSheets[2]
    /\ xl_mappings = SampleMappings
    /\ db = NoDb
    /\ env \in [parser : Parsers, unwritable : SUBSET {"ddl", "dml"}]
    /\ \/ /\ impl = "pandas"
          /\ cli = Command("main", TRUE, TRUE, TRUE, "redshift")
          /\ xl_tables = MainTables
          /\ xl_broken \in {"none"} \cup Sheets
          /\ sql_file = NoFile
       \/ /\ impl = "jinja"
          /\ cli \in { Command("generate", d, m, v, "redshift") :
                         d \in BOOLEAN, m \in BOOLEAN, v \in BOOLEAN }
          /\ xl_tables \in {SampleSheets[1], MainTables}
          /\ xl_broken \in {"none"} \cup Sheets
          /\ sql_file = NoFile
       \/ /\ cli = Api
          /\ xl_tables = MainTables
          /\ xl_broken \in {"none"} \cup Sheets
          /\ sql_file = NoFile
          /\ env.unwritable = {}
       \/ /\ impl = "jinja"
          /\ cli \in { Command("validate", TRUE, TRUE, TRUE, d) : d \in Dialects }
          /\ xl_tables = SampleSheets[1]
          /\ xl_broken = "none"
          /\ sql_file \in {NoFile} \cup { File(t) : t \in InputTexts }
          /\ env.unwritable = {}
    /\ InitObject

SpecCLI == InitCLI /\ [][NextCLI]_vars

(***************************************************************************)
(* Reading the generated DDL text                                          *)
(***************************************************************************)
IsSet(x) == x.t \notin {"none", "undef"}

StripComma(line) ==
    IF line # <<>> /\ line[Len(line)] = "," THEN SubSeq(line, 1, Len(line) - 1) ELSE line

HasPrefix(line, pre) == Len(line) >= Len(pre) /\ SubSeq(line, 1, Len(pre)) = pre

StmtsWith(items, pre) ==
    { i \in 1..Len(items) : items[i].kind = "sql" /\ HasPrefix(items[i].lines[1], pre) }

DropsOf(items, t) ==
    StmtsWith(items, <<"DROP TABLE IF EXISTS", t.schema_name, ".", t.table_name>>)
CreatesOf(items, t) ==
    StmtsWith(items, <<"CREATE TABLE", t.schema_name, ".", t.table_name, "(">>)
CommentsOf(items, t) ==
    StmtsWith(items, <<"COMMENT ON TABLE", t.schema_name, ".", t.table_name>>)

\* index of the line that closes the parenthesised list of a CREATE TABLE
CloseLine(lines) == CHOOSE k \in 1..Len(lines) : lines[k] = <<")">>

\* the column lines: after the opening line, up to the key clause or the closing line
ColumnLines(lines) ==
    LET stop == CHOOSE k \in 2..Len(lines) :
                   /\ lines[k][1] \in {",", "PRIMARY KEY", ")"}
                   /\ \A m \in 2..(k - 1) : lines[m][1] \notin {",", "PRIMARY KEY", ")"}
    IN SubSeq(lines, 2, stop - 1)

\* the lines after the closing parenthesis
PropLines(lines) == SubSeq(lines, CloseLine(lines) + 1, Len(lines))

ColumnRecs(t) ==
    { j \in 1..Len(xl_columns) :
        /\ xl_columns[j].schema_name = t.schema_name
        /\ xl_columns[j].table_name = t.table_name }

RecOfName(t, name) == xl_columns[CHOOSE j \in ColumnRecs(t) : xl_columns[j].column_name = name]

DdlItems == ddl_file.items

\* generate_ddl ran on loaded sheets
DdlRan == "ddl" \in called /\ ret.load = "True"

(***************************************************************************)
(* C5: for every table with at least one column record, the column list of *)
(* the emitted CREATE TABLE has exactly one entry per column record of     *)
(* that (schema_name, table_name), none of another table, in strictly      *)
(* ascending column_order.                                                 *)
(***************************************************************************)
C5_ColumnListOfTable(t) ==
    \A i \in CreatesOf(DdlItems, t) :
        LET L == ColumnLines(DdlItems[i].lines)
        IN /\ Len(L) = Cardinality(ColumnRecs(t))
           /\ \A k \in 1..Len(L) :
                 \E j \in ColumnRecs(t) : xl_columns[j].column_name = L[k][1]
           /\ \A k \in 1..(Len(L) - 1) :
                 RecOfName(t, L[k][1]).column_order < RecOfName(t, L[k + 1][1]).column_order

C5_ColumnList ==
    ddl_file.written =>
        \A n \in 1..Len(xl_tables) :
            ColumnRecs(xl_tables[n]) # {} =>
                /\ Cardinality(CreatesOf(DdlItems, xl_tables[n])) = 1
                /\ C5_ColumnListOfTable(xl_tables[n])

\* a written file whose table has three column records, given out of order
C5_Witness ==
    /\ ddl_file.written
    /\ \E n \in 1..Len(xl_tables) :
          /\ Cardinality(ColumnRecs(xl_tables[n])) = 3
          /\ \E j \in 1..(Len(xl_columns) - 1) :
                xl_columns[j].column_order > xl_columns[j + 1].column_order
          /\ CreatesOf(DdlItems, xl_tables[n]) # {}

(***************************************************************************)
(* C7: the distribution clause is DISTKEY(dist_key) alone when dist_style  *)
(* is KEY and dist_key is set, DISTSTYLE dist_style alone when dist_style  *)
(* is set otherwise, and absent when dist_style is not set.                *)
(***************************************************************************)
DistLines(lines) ==
    SelectSeq(PropLines(lines), LAMBDA l : l[1] \in {"DISTKEY", "DISTSTYLE"})

ExpectedDist(t) ==
    IF ~IsSet(t.dist_style) THEN <<>>
    ELSE IF t.dist_style.v = "KEY" /\ IsSet(t.dist_key)
         THEN << <<"DISTKEY", "(", t.dist_key.v, ")">> >>
         ELSE << <<"DISTSTYLE", t.dist_style.v>> >>

C7_DistClause ==
    \A n \in 1..Len(xl_tables) :
        \A i \in CreatesOf(DdlItems, xl_tables[n]) :
            DistLines(DdlItems[i].lines) = ExpectedDist(xl_tables[n])

\* a CREATE TABLE was written for a table with dist_style KEY and a dist_key
C7_Witness ==
    /\ ddl_file.written
    /\ \E n \in 1..Len(xl_tables) :
          /\ xl_tables[n].dist_style = PyStr("KEY")
          /\ IsSet(xl_tables[n].dist_key)
          /\ CreatesOf(DdlItems, xl_tables[n]) # {}

(***************************************************************************)
(* C6: a table with zero column records gets one error message naming it   *)
(* and no CREATE TABLE; every other table still gets its full block and    *)
(* generate_ddl reports success.                                           *)
(***************************************************************************)
ErrorsNaming(t) ==
    { k \in 1..Len(errors) : errors[k].arg = full_name(t.schema_name, t.table_name) }

FullBlock(t) ==
    /\ Cardinality(DropsOf(DdlItems, t)) = 1
    /\ Cardinality(CreatesOf(DdlItems, t)) = 1
    /\ IsSet(t.description) <=> CommentsOf(DdlItems, t) # {}

C6_SkipsEmptyTable ==
    DdlRan =>
        \A n \in 1..Len(xl_tables) :
            ColumnRecs(xl_tables[n]) = {} =>
                /\ Cardinality(ErrorsNaming(xl_tables[n])) = 1
                /\ CreatesOf(DdlItems, xl_tables[n]) = {}
                /\ ret.ddl = "True"
                /\ \A m \in 1..Len(xl_tables) :
                      ColumnRecs(xl_tables[m]) # {} => FullBlock(xl_tables[m])

(***************************************************************************)
(* C8: a table with sort_keys carries <sort_type> SORTKEY(<sort_keys>),    *)
(* with COMPOUND when sort_type is absent or empty; an absent sort_type    *)
(* neither fails generate_ddl nor yields a placeholder sort type.          *)
(***************************************************************************)
SortLines(lines) ==
    SelectSeq(PropLines(lines), LAMBDA l : Len(l) >= 2 /\ l[2] = "SORTKEY")

ExpectedSort(t) ==
    << << IF IsSet(t.sort_type) THEN t.sort_type.v ELSE "COMPOUND",
          "SORTKEY", "(", t.sort_keys.v, ")" >> >>

C8_SortClause ==
    DdlRan =>
        \A n \in 1..Len(xl_tables) :
            (IsSet(xl_tables[n].sort_keys) /\ ColumnRecs(xl_tables[n]) # {}) =>
                /\ ret.ddl = "True"
                /\ \A i \in CreatesOf(DdlItems, xl_tables[n]) :
                      SortLines(DdlItems[i].lines) = ExpectedSort(xl_tables[n])

(***************************************************************************)
(* C9: the block of a table with columns is DROP, then CREATE TABLE with   *)
(* the PRIMARY KEY clause inside the parentheses after the last column and *)
(* the distribution and sort clauses after the closing parenthesis, then   *)
(* COMMENT ON TABLE iff description is set; the spec's dwh.dim_customer    *)
(* yields DROP, CREATE with customer_key, customer_id, PRIMARY KEY         *)
(* (customer_key), DISTKEY(customer_key), COMPOUND SORTKEY(customer_id).   *)
(***************************************************************************)
Only(S) == CHOOSE x \in S : TRUE

LinesWith(lines, first) == { k \in 1..Len(lines) : lines[k][1] \in first }

CreateInOrder(t, lines) ==
    LET close == CloseLine(lines)
        cols == LinesWith(lines, {c.column_name : c \in {xl_columns[j] : j \in ColumnRecs(t)}})
        pk == LinesWith(lines, {"PRIMARY KEY"})
        props == { k \in 1..Len(lines) :
                     lines[k][1] \in {"DISTKEY", "DISTSTYLE"}
                     \/ (Len(lines[k]) >= 2 /\ lines[k][2] = "SORTKEY") }
    IN /\ IsSet(t.primary_key) <=> pk # {}
       /\ \A p \in pk : p < close /\ \A c \in cols : c < p
       /\ \A c \in cols : c < close
       /\ \A q \in props : q > close

BlockInOrder(t) ==
    /\ Cardinality(DropsOf(DdlItems, t)) = 1
    /\ Cardinality(CreatesOf(DdlItems, t)) = 1
    /\ Only(DropsOf(DdlItems, t)) < Only(CreatesOf(DdlItems, t))
    /\ CreateInOrder(t, DdlItems[Only(CreatesOf(DdlItems, t))].lines)
    /\ DdlItems[Only(CreatesOf(DdlItems, t)) + 1] = Semi
    /\ IsSet(t.description) <=> CommentsOf(DdlItems, t) # {}
    /\ \A c \in CommentsOf(DdlItems, t) : c > Only(CreatesOf(DdlItems, t))

\* the table of the spec scenario: sort_type is not given
IsScenarioTable(t) ==
    /\ t.schema_name = "dwh" /\ t.table_name = "dim_customer"
    /\ t.primary_key = PyStr("customer_key")
    /\ t.dist_style = PyStr("KEY") /\ t.dist_key = PyStr("customer_key")
    /\ t.sort_keys = PyStr("customer_id") /\ ~IsSet(t.sort_type)
    /\ { xl_columns[j] : j \in ColumnRecs(t) } =
         { MkColumn("dwh", "dim_customer", "customer_key", 1, "BIGINT", KeyColumnAttrs),
           MkColumn("dwh", "dim_customer", "customer_id", 2, "VARCHAR(50)", PlainColumnAttrs) }

\* the lines of a statement without the separating commas
Uncomma(lines) ==
    SelectSeq([k \in 1..Len(lines) |-> StripComma(lines[k])], LAMBDA l : l # <<>>)

ScenarioCreate ==
    << <<"CREATE TABLE", "dwh", ".", "dim_customer", "(">>,
       <<"customer_key", "BIGINT", "NOT NULL">>,
       <<"customer_id", "VARCHAR(50)">>,
       <<"PRIMARY KEY", "(", "customer_key", ")">>,
       <<")">>,
       <<"DISTKEY", "(", "customer_key", ")">>,
       <<"COMPOUND", "SORTKEY", "(", "customer_id", ")">> >>

C9_BlockOrder ==
    DdlRan =>
        \A n \in 1..Len(xl_tables) :
            ColumnRecs(xl_tables[n]) # {} =>
                /\ BlockInOrder(xl_tables[n])
                /\ IsScenarioTable(xl_tables[n]) =>
                      Uncomma(DdlItems[Only(CreatesOf(DdlItems, xl_tables[n]))].lines)
                          = ScenarioCreate

(***************************************************************************)
(* C10: a column line is name and data type, then NOT NULL iff not_null,   *)
(* then DEFAULT <default_value> iff default_value is present (whatever its *)
(* value, 0 and false included), then ENCODE <encode> iff encode is        *)
(* present.                                                                *)
(***************************************************************************)
ExpectedColumnLine(c) ==
    <<c.column_name, c.data_type>>
    \o (IF c.not_null = PyBool(TRUE) THEN <<"NOT NULL">> ELSE <<>>)
    \o (IF IsSet(c.default_value) THEN <<"DEFAULT", c.default_value.v>> ELSE <<>>)
    \o (IF IsSet(c.encode) THEN <<"ENCODE", c.encode.v>> ELSE <<>>)

C10_ColumnLine ==
    \A n \in 1..Len(xl_tables) :
        \A i \in CreatesOf(DdlItems, xl_tables[n]) :
            LET L == ColumnLines(DdlItems[i].lines)
            IN \A k \in 1..Len(L) :
                  \E j \in ColumnRecs(xl_tables[n]) :
                      StripComma(L[k]) = ExpectedColumnLine(xl_columns[j])

(***************************************************************************)
(* Reading the generated DML text                                          *)
(***************************************************************************)
DmlItems == dml_file.items

\* generate_dml ran on loaded sheets
DmlRan == "dml" \in called /\ ret.load = "True"

\* ... and wrote its file
DmlWritten == DmlRan /\ dml_file.written

\* the comment lines "-- Load: <schema>.<table> (SCD <tag>)" open the blocks
LoadBlocks ==
    { i \in 1..Len(DmlItems) :
        DmlItems[i].kind = "comment" /\ HasPrefix(DmlItems[i].lines[1], <<"Load:">>) }

BlockEnd(i) ==
    IF \E j \in LoadBlocks : j > i
    THEN (CHOOSE j \in LoadBlocks : j > i /\ \A m \in LoadBlocks : m > i => j <= m) - 1
    ELSE Len(DmlItems)

BlockSchema(i) == DmlItems[i].lines[1][2]
BlockTable(i) == DmlItems[i].lines[1][4]
BlockTag(i) == DmlItems[i].lines[1][6]

\* the statements of a block that open with the given keyword
BlockStmts(i, first) ==
    { k \in i..BlockEnd(i) : DmlItems[k].kind = "sql" /\ DmlItems[k].lines[1][1] = first }

\* the strategy a block was built by, told from its statements
StrategyOf(i) ==
    IF BlockStmts(i, "MERGE INTO") # {} THEN "Type1"
    ELSE IF BlockStmts(i, "UPDATE") # {} /\ BlockStmts(i, "INSERT INTO") # {} THEN "Type2"
    ELSE IF BlockStmts(i, "INSERT INTO") # {} THEN "Insert"
    ELSE "none"

\* the statement of a block that carries the SELECT list of the mappings
LoadStmt(i) ==
    DmlItems[CHOOSE k \in BlockStmts(i, "MERGE INTO") \cup BlockStmts(i, "INSERT INTO") : TRUE].lines

\* the lines of the SELECT list: after the line SELECT, before the next FROM line
SelectLines(lines) ==
    LET s == CHOOSE k \in 1..Len(lines) :
                 lines[k] = <<"SELECT">> /\ \A m \in 1..(k - 1) : lines[m] # <<"SELECT">>
        f == CHOOSE k \in (s + 1)..Len(lines) :
                 lines[k][1] = "FROM" /\ \A m \in (s + 1)..(k - 1) : lines[m][1] # "FROM"
    IN SubSeq(lines, s + 1, f - 1)

HasAlias(line) == Len(line) >= 3 /\ line[Len(line) - 1] = "AS"

\* a SELECT line without its comma and its "AS <target_column>"
ExprOf(line) ==
    LET s == StripComma(line)
    IN IF HasAlias(s) THEN SubSeq(s, 1, Len(s) - 2) ELSE s

\* the target columns a load statement fills from the mappings, in list order
TargetNames(lines) ==
    IF lines[1][1] = "INSERT INTO"
    THEN SelectSeq(lines[2], LAMBDA tok : tok # ",")
    ELSE LET sel == SelectLines(lines)
         IN [k \in 1..Len(sel) |-> StripComma(sel[k])[Len(StripComma(sel[k]))]]

\* the expression the statement selects for its k-th target column
MappedExpr(lines, k) == ExprOf(SelectLines(lines)[k])

\* the sheets give every mapping row its own target_column name
RowOf(name) ==
    xl_mappings[CHOOSE j \in 1..Len(xl_mappings) : xl_mappings[j].target_column = name]

\* every expression a written DML file selects, with the row it was resolved from
Resolved ==
    { <<i, k>> \in LoadBlocks \X (1..Len(xl_mappings)) : k <= Len(TargetNames(LoadStmt(i))) }
ResolvedRow(ik) == RowOf(TargetNames(LoadStmt(ik[1]))[ik[2]])
ResolvedExpr(ik) == MappedExpr(LoadStmt(ik[1]), ik[2])

TagColumnPresent == \A j \in 1..Len(xl_mappings) : xl_mappings[j].scd_type # Undefined

(***************************************************************************)
(* C1: the resolved source expression of every mapping is the first match  *)
(* in the order transformation (verbatim), source_column (the              *)
(* source-column form), constant_value (its literal), NULL; every mapping  *)
(* gets an expression and resolving changes no generator state.            *)
(***************************************************************************)
LiteralOf(c) == IF c.t = "str" THEN <<"'", c.v, "'">> ELSE <<c.v>>

FirstMatch(row) ==
    IF IsSet(row.transformation) THEN { <<row.transformation.v>> }
    ELSE IF IsSet(row.source_column)
    THEN { <<"src", ".", row.source_column.v>>, <<row.source_column.v>> }
    ELSE IF IsSet(row.constant_value) THEN { LiteralOf(row.constant_value) }
    ELSE { <<"NULL">> }

C1_FirstMatch ==
    DmlWritten =>
        /\ \A ik \in Resolved : ResolvedExpr(ik) \in FirstMatch(ResolvedRow(ik))
        /\ \A j \in 1..Len(xl_mappings) :
               \E ik \in Resolved : ResolvedRow(ik) = xl_mappings[j]
        /\ mappings_df = DF(xl_mappings)

(***************************************************************************)
(* C2, as the specification states it: in all three strategies a mapping   *)
(* with no transformation and a source_column S resolves to src.S; the     *)
(* Insert strategy never emits the bare name S.                            *)
(***************************************************************************)
FromSourceColumn(row) == ~IsSet(row.transformation) /\ IsSet(row.source_column)

C2_QualifiedInEveryStrategy ==
    DmlWritten =>
        \A ik \in Resolved :
            FromSourceColumn(ResolvedRow(ik))
            => ResolvedExpr(ik) = <<"src", ".", ResolvedRow(ik).source_column.v>>

(***************************************************************************)
(* C2, amended: a mapping with no transformation and a source_column S     *)
(* resolves to src.S in the Type1 and Type2 strategies, whose FROM clause  *)
(* carries the alias src, and to the bare name S in the Insert strategy,   *)
(* whose FROM clause carries no alias.                                     *)
(***************************************************************************)
C2_QualifiedWhereAliased ==
    DmlWritten =>
        \A ik \in Resolved :
            FromSourceColumn(ResolvedRow(ik))
            => ResolvedExpr(ik) =
                  IF StrategyOf(ik[1]) \in {"Type1", "Type2"}
                  THEN <<"src", ".", ResolvedRow(ik).source_column.v>>
                  ELSE <<ResolvedRow(ik).source_column.v>>

\* one file holds a source-column mapping under Insert and another under a merge
C2_Witness ==
    /\ DmlWritten
    /\ \E ik \in Resolved : FromSourceColumn(ResolvedRow(ik)) /\ StrategyOf(ik[1]) = "Insert"
    /\ \E ik \in Resolved : FromSourceColumn(ResolvedRow(ik)) /\ StrategyOf(ik[1]) \in {"Type1", "Type2"}

(***************************************************************************)
(* C3: the strategy of a block follows from its governing scd_type tag:    *)
(* TYPE1 selects the Type1 merge, TYPE2 the Type2 history load, any other  *)
(* tag value (FOO, INSERT, type1, an empty cell) the Insert strategy; no   *)
(* tag value makes generate_dml fail.                                      *)
(***************************************************************************)
\* how the block comment shows a tag: an empty cell reads nan or None
TagText(x) == IF x.t = "none" THEN {"nan", "None"} ELSE {x.v}

StrategyOfTag(tag) ==
    IF tag = "TYPE1" THEN "Type1" ELSE IF tag = "TYPE2" THEN "Type2" ELSE "Insert"

TargetPairs ==
    { <<xl_mappings[j].target_schema, xl_mappings[j].target_table>> : j \in 1..Len(xl_mappings) }

ColumnsOfPair(p) ==
    { xl_mappings[j].target_column : j \in { m \in 1..Len(xl_mappings) :
          xl_mappings[m].target_schema = p[1] /\ xl_mappings[m].target_table = p[2] } }

Range(s) == { s[k] : k \in 1..Len(s) }

C4_GroupsByPair ==
    DmlWritten =>
        /\ \A p \in TargetPairs :
              Cardinality({ i \in LoadBlocks : <<BlockSchema(i), BlockTable(i)>> = p }) = 1
        /\ \A i \in LoadBlocks :
              /\ <<BlockSchema(i), BlockTable(i)>> \in TargetPairs
              /\ Range(TargetNames(LoadStmt(i)))
                     = ColumnsOfPair(<<BlockSchema(i), BlockTable(i)>>)

(***************************************************************************)
(* Reading the statements of the Type1 and Type2 strategies                *)
(***************************************************************************)
\* index of the first line of a statement that opens with the given tokens
LineAt(lines, pre) ==
    CHOOSE k \in 1..Len(lines) :
        HasPrefix(lines[k], pre) /\ \A m \in 1..(k - 1) : ~HasPrefix(lines[m], pre)

\* the target columns of a block that are business keys, and the others
IsKeyName(name) == RowOf(name).is_business_key = PyBool(TRUE)
KeysOf(i) == SelectSeq(TargetNames(LoadStmt(i)), IsKeyName)
NonKeysOf(i) == SelectSeq(TargetNames(LoadStmt(i)), LAMBDA c : ~IsKeyName(c))

\* the block lists its target columns by ascending target_column_order
InColumnOrder(i) ==
    LET cols == TargetNames(LoadStmt(i))
    IN \A a, b \in 1..Len(cols) :
           a < b => RowOf(cols[a]).target_column_order <= RowOf(cols[b]).target_column_order

RECURSIVE Conj(_, _)
Conj(word, parts) ==
    IF parts = <<>> THEN <<>>
    ELSE IF Len(parts) = 1 THEN parts[1]
    ELSE parts[1] \o <<word>> \o Conj(word, Tail(parts))

KeyJoin(B) == Conj("AND", [k \in 1..Len(B) |-> <<"tgt", ".", B[k], "=", "src", ".", B[k]>>])

\* the items of the UPDATE SET list of a MERGE: the text between UPDATE SET and
\* WHEN NOT MATCHED THEN, cut at the commas that close its lines
SetItems(lines) ==
    LET u == LineAt(lines, <<"UPDATE SET">>)
        w == LineAt(lines, <<"WHEN NOT MATCHED THEN">>)
        first == SubSeq(lines[u], 2, Len(lines[u]))
    IN (IF first = <<>> THEN <<>> ELSE <<StripComma(first)>>)
       \o [k \in 1..(w - u - 1) |-> StripComma(lines[u + k])]

Assignments(lines) == SelectSeq(SetItems(lines), LAMBDA item : item # <<>>)

(***************************************************************************)
(* C11: in every Type1 group, with B the business-key target columns and C *)
(* the others, both in target_column_order, the ON clause of the MERGE is  *)
(* the AND-conjunction of tgt.b = src.b over B in that order, and the      *)
(* UPDATE SET list holds one assignment tgt.c = src.c per c of C, none for *)
(* a column of B, and one assignment to tgt.updated_date.                  *)
(***************************************************************************)
C11_MergeKeysAndSets ==
    DmlWritten =>
        \A i \in LoadBlocks :
            StrategyOf(i) = "Type1" =>
                LET lines == LoadStmt(i)
                    B == KeysOf(i)
                    C == NonKeysOf(i)
                IN /\ InColumnOrder(i)
                   /\ lines[LineAt(lines, <<"ON">>)] = <<"ON">> \o KeyJoin(B)
                   /\ Assignments(lines) =
                         [k \in 1..Len(C) |-> <<"tgt", ".", C[k], "=", "src", ".", C[k]>>]
                         \o << <<"tgt", ".", "updated_date", "=", "GETDATE()">> >>

\* a Type1 group of two keys and two other columns whose sheet rows are out of order
C11_Witness ==
    /\ DmlWritten
    /\ \E i \in LoadBlocks :
          /\ StrategyOf(i) = "Type1"
          /\ Len(KeysOf(i)) = 2
          /\ Len(NonKeysOf(i)) >= 2
          /\ xl_mappings[1].target_column # TargetNames(LoadStmt(i))[1]

(***************************************************************************)
(* Running the two statements of a Type2 block on a warehouse.  A row maps *)
(* column names to values; a target row also carries is_current.  A        *)
(* statement that names a column its relation does not expose, or that has *)
(* an empty predicate, is rejected and the transaction changes nothing.    *)
(***************************************************************************)
SqlNull == [isnull |-> TRUE, v |-> ""]
Val(text) == [isnull |-> FALSE, v |-> text]

\* NVL(x, 'NULL')
NVL(x, d) == IF x.isnull THEN Val(d) ELSE x

\* the columns a line reads through the alias src
SrcRefs(line) ==
    { line[j + 2] : j \in { m \in 1..(Len(line) - 2) : line[m] = "src" /\ line[m + 1] = "." } }

\* the pairs <<t, s>> of the tests tgt.t = src.s of a line
JoinPairs(line) ==
    { <<line[j - 1], line[j + 3]>> :
        j \in { m \in 4..(Len(line) - 3) : line[m] = "=" /\ line[m + 1] = "src" } }

\* the pairs <<t, s>> of the tests NVL(tgt.t, 'NULL') <> NVL(src.s, 'NULL') of a line
ChangeTests(line) ==
    { <<line[j - 2], line[j + 4]>> : j \in { m \in 3..(Len(line) - 4) : line[m] = "<>" } }

AliasOf(line) == IF HasAlias(line) THEN line[Len(line)] ELSE ""

\* tgt.t = src.s holds on a pair of rows (never on a NULL)
Matches(t, s, pairs) ==
    \A p \in pairs : ~t[p[1]].isnull /\ ~s[p[2]].isnull /\ t[p[1]] = s[p[2]]

Changed(t, s, tests) == \E p \in tests : NVL(t[p[1]], "NULL") # NVL(s[p[2]], "NULL")

ExpireLines(i) == DmlItems[CHOOSE k \in BlockStmts(i, "UPDATE") : TRUE].lines

\* UPDATE ... FROM (SELECT <keys> FROM <source>) AS src WHERE ...: the names resolve
ExpireBinds(lines, source_columns) ==
    LET sel == lines[LineAt(lines, <<"SELECT">>)]
        from == lines[LineAt(lines, <<"SELECT">>) + 1]
        on == lines[LineAt(lines, <<"AND">>)]
        chg == lines[LineAt(lines, <<"AND", "(">>)]
    IN /\ SrcRefs(sel) # {}
       /\ AliasOf(from) = "src"
       /\ SrcRefs(sel) \subseteq source_columns
       /\ JoinPairs(on) # {}
       /\ ChangeTests(chg) # {}
       /\ SrcRefs(on) \cup SrcRefs(chg) \subseteq SrcRefs(sel)

\* the target after the Expire statement
Expire(lines, target, source) ==
    LET on == JoinPairs(lines[LineAt(lines, <<"AND">>)])
        chg == ChangeTests(lines[LineAt(lines, <<"AND", "(">>)])
    IN [j \in 1..Len(target) |->
          IF /\ target[j].is_current
             /\ \E k \in 1..Len(source) :
                   Matches(target[j].cols, source[k], on) /\ Changed(target[j].cols, source[k], chg)
          THEN [target[j] EXCEPT !.is_current = FALSE]
          ELSE target[j]]

\* INSERT INTO ... SELECT ... FROM <source> AS src WHERE ...: the names resolve
InsertBinds(lines, source_columns) ==
    LET from == lines[LineAt(lines, <<"FROM">>)]
        chg == LineAt(lines, <<"AND", "(">>)
    IN /\ AliasOf(from) = "src"
       /\ \A k \in 1..Len(lines) : SrcRefs(lines[k]) \subseteq source_columns
       /\ JoinPairs(lines[LineAt(lines, <<"AND">>)]) # {}
       /\ JoinPairs(lines[chg - 1]) # {}
       /\ ChangeTests(lines[chg]) # {}

\* the value a SELECT expression takes on a source row
ValueOf(expr, s) ==
    IF Len(expr) = 3 /\ expr[1] = "src" THEN s[expr[3]]
    ELSE IF expr = <<"NULL">> THEN SqlNull
    ELSE IF expr[1] = "'" THEN Val(expr[2])
    ELSE Val(expr[1])

\* the target after the Insert new versions statement
InsertVersions(lines, target, source) ==
    LET chg == LineAt(lines, <<"AND", "(">>)
        absent == JoinPairs(lines[LineAt(lines, <<"AND">>)])
        on == JoinPairs(lines[chg - 1])
        tests == ChangeTests(lines[chg])
        cols == TargetNames(lines)
        current == { j \in 1..Len(target) : target[j].is_current }
        selected(s) ==
            \/ ~\E j \in current : Matches(target[j].cols, s, absent)
            \/ \E j \in current :
                  Matches(target[j].cols, s, on) /\ Changed(target[j].cols, s, tests)
        picked == SelectSeq(source, selected)
    IN target \o
       [k \in 1..Len(picked) |->
           [cols |-> [c \in Range(cols) |->
                        ValueOf(MappedExpr(lines, CHOOSE m \in 1..Len(cols) : cols[m] = c),
                                picked[k])],
            is_current |-> TRUE]]

Type2Blocks == { i \in LoadBlocks : StrategyOf(i) = "Type2" }

\* BEGIN TRANSACTION; Expire; Insert new versions; COMMIT of the first Type2 block
run_type2 ==
    /\ Alive
    /\ dml_file.written
    /\ db.status = "none"
    /\ db.source # <<>>
    /\ Type2Blocks # {}
    /\ LET i == CHOOSE b \in Type2Blocks : \A c \in Type2Blocks : b <= c
           source_columns == DOMAIN db.source[1]
           expired == Expire(ExpireLines(i), db.target, db.source)
       IN db' = IF /\ ExpireBinds(ExpireLines(i), source_columns)
                   /\ InsertBinds(LoadStmt(i), source_columns)
                THEN [db EXCEPT !.target = InsertVersions(LoadStmt(i), expired, db.source),
                                !.status = "committed"]
                ELSE [db EXCEPT !.status = "failed"]
    /\ UNCHANGED <<impl, xl_tables, xl_columns, xl_mappings, xl_broken,
                   tables_df, columns_df, mappings_df, errors,
                   ddl_file, dml_file, called, ret, cli, validations, sql_file, env>>

\* Type2 groups with at least one business key
RunSheets ==
    { sh \in WideSheets :
        sh[1].scd_type = PyStr("TYPE2") /\ \E j \in 1..Len(sh) : sh[j].is_business_key = PyBool(TRUE) }

DiffKinds == {"value", "null", "sentinel"}

\* a source of one row and a target that holds an expired row of the same key
\* and, when has_current, a current one; the source row differs from the current
\* row in the d-th non-key column (d = 0: in none)
Warehouse(mappings, has_current, d, kind) ==
    LET cols == { mappings[j].target_column : j \in 1..Len(mappings) }
        keys == { mappings[j].target_column :
                    j \in { m \in 1..Len(mappings) : mappings[m].is_business_key = PyBool(TRUE) } }
        base(text) == [c \in cols |-> IF c \in keys THEN Val("k1") ELSE Val(text)]
        src == IF d = 0 THEN base("x")
               ELSE [base("x") EXCEPT ![NonKeyNames[d]] =
                        IF kind = "value" THEN Val("y")
                        ELSE IF kind = "null" THEN SqlNull ELSE Val("NULL")]
        cur == IF d = 0 \/ kind # "sentinel" THEN base("x")
               ELSE [base("x") EXCEPT ![NonKeyNames[d]] = SqlNull]
        target == << [cols |-> base("old"), is_current |-> FALSE] >>
                  \o (IF has_current THEN << [cols |-> cur, is_current |-> TRUE] >> ELSE <<>>)
    IN [source |-> <<src>>, before |-> target, target |-> target, status |-> "none"]

NonKeyCount(mappings) ==
    Cardinality({ j \in 1..Len(mappings) : mappings[j].is_business_key # PyBool(TRUE) })

\* runs that generate a Type2 load and then run it
InitRun ==
    /\ impl \in Impls
    /\ xl_tables = SampleSheets[1]
    /\ xl_columns = SampleSheets[2]
    /\ xl_mappings \in RunSheets
    /\ xl_broken = "none"
    /\ \E has_current \in BOOLEAN, d \in 0..NonKeyCount(xl_mappings), kind \in DiffKinds :
          db = Warehouse(xl_mappings, has_current, d, kind)
    /\ InitApi

NextRun == load_definitions \/ generate_ddl \/ generate_dml \/ run_type2

SpecRun == InitRun /\ [][NextRun]_vars

(***************************************************************************)
(* C12: running Expire and then Insert new versions on a target with at    *)
(* most one current row per business key and a source with at most one row *)
(* per key: a source row equal to the current row of its key in the        *)
(* compared columns causes no expiration and no insert; one that differs   *)
(* in one of the first five compared non-key columns causes exactly one    *)
(* expiration and one inserted current row; one whose key has no current   *)
(* row causes no expiration and exactly one insert.                        *)
(***************************************************************************)
RunDone == db.status # "none"

MappedKeys ==
    { xl_mappings[j].target_column :
        j \in { m \in 1..Len(xl_mappings) : xl_mappings[m].is_business_key = PyBool(TRUE) } }

MappedNonKeys ==
    { xl_mappings[j].target_column :
        j \in { m \in 1..Len(xl_mappings) : xl_mappings[m].is_business_key # PyBool(TRUE) } }

\* the first five non-key columns by target_column_order
ComparedCols ==
    { c \in MappedNonKeys :
        Cardinality({ e \in MappedNonKeys :
            RowOf(e).target_column_order < RowOf(c).target_column_order }) < 5 }

CurrentBefore ==
    { j \in 1..Len(db.before) :
        /\ db.before[j].is_current
        /\ \A k \in MappedKeys : db.before[j].cols[k] = db.source[1][k] }

Expired == { j \in 1..Len(db.before) : db.before[j].is_current /\ ~db.target[j].is_current }

Inserted == { j \in (Len(db.before) + 1)..Len(db.target) : db.target[j].is_current }

Differs(j) == \E c \in ComparedCols : db.before[j].cols[c] # db.source[1][c]

C12_ExpireThenInsert ==
    RunDone =>
        /\ Len(db.target) - Len(db.before) = Cardinality(Inserted)
        /\ IF CurrentBefore = {}
           THEN Expired = {} /\ Cardinality(Inserted) = 1
           ELSE \A j \in CurrentBefore :
                   IF Differs(j)
                   THEN Expired = {j} /\ Cardinality(Inserted) = 1
                   ELSE Expired = {} /\ Cardinality(Inserted) = 0

(***************************************************************************)
(* C13: in every Type2 group the change-detection predicate is the         *)
(* OR-disjunction of one null-safe inequality test per non-key target      *)
(* column, over the first min(5, n) of the n non-key columns in            *)
(* target_column_order; it tests no business key and no sixth or later     *)
(* non-key column, and each test takes a NULL on one side and a non-NULL   *)
(* value on the other side for a difference.                               *)
(***************************************************************************)
FirstFive(cols) == SubSeq(cols, 1, IF Len(cols) < 5 THEN Len(cols) ELSE 5)

NullSafeTest(c) ==
    <<"NVL(", "tgt", ".", c, ", 'NULL')", "<>", "NVL(", "src", ".", c, ", 'NULL')">>

\* the predicate lines "AND ( ... )" of the two statements of a Type2 block
ChangeLines(i) ==
    { ExpireLines(i)[LineAt(ExpireLines(i), <<"AND", "(">>)],
      LoadStmt(i)[LineAt(LoadStmt(i), <<"AND", "(">>)] }

\* texts a column may hold
SampleTexts == {"x", "", "N/A", "NULL"}

C13_ChangeDetection ==
    DmlWritten =>
        \A i \in Type2Blocks :
            /\ InColumnOrder(i)
            /\ \A line \in ChangeLines(i) :
                  /\ line = <<"AND", "(">>
                            \o Conj("OR", [k \in 1..Len(FirstFive(NonKeysOf(i))) |->
                                              NullSafeTest(FirstFive(NonKeysOf(i))[k])])
                            \o <<")">>
                  /\ \A p \in ChangeTests(line) : \A v \in SampleTexts :
                        /\ NVL(SqlNull, "NULL") # NVL(Val(v), "NULL")
                        /\ Changed([c \in {p[1]} |-> SqlNull], [c \in {p[2]} |-> Val(v)], {p})
                        /\ Changed([c \in {p[1]} |-> Val(v)], [c \in {p[2]} |-> SqlNull], {p})

(***************************************************************************)
(* The validator and the commands                                          *)
(***************************************************************************)
\* the pieces of a text between semicolons that the validator hands to the
\* parser and that the parser of the dialect rejects
FailedToParse(items, dialect) ==
    LET frags == split(items)
    IN { k \in 1..Len(frags) :
           /\ frags[k] # <<>>
           /\ frags[k][1].kind = "sql"
           /\ len(frags[k]) >= 10
           /\ frags[k][1].lines[1][1] \in env.parser[dialect] }

Validated == Len(validations') = Len(validations) + 1

LastValidation == validations'[Len(validations')]

\* C14: every call of the validator reports success exactly when no statement
\* of the text failed to parse, and leaves the text and the files as they were
C14_SuccessIffNoFailure ==
    [][Validated =>
         /\ LastValidation.ok <=>
              FailedToParse(LastValidation.items, LastValidation.dialect) = {}
         /\ LastValidation.error_count =
              Cardinality(FailedToParse(LastValidation.items, LastValidation.dialect))
         /\ <<ddl_file, dml_file, sql_file>>' = <<ddl_file, dml_file, sql_file>>
         /\ LastValidation.items =
              (CASE LastValidation.file = "ddl" -> ddl_file.items
                 [] LastValidation.file = "dml" -> dml_file.items
                 [] OTHER -> sql_file.items)]_vars

\* a text with a statement that parsed and one that did not, reported as failed;
\* and a text with statements that all parsed, reported as valid
C14_Witness ==
    \E k \in 1..Len(validations) :
        /\ validations[k].error_count > 0
        /\ validations[k].valid_count > 0
        /\ ~validations[k].ok

\* C15: the validate command called with dialect D parses under D: it ends
\* with code 0 exactly when the parser of D rejects no statement of the file
C15_DialectOfCaller ==
    (cli.cmd = "validate" /\ cli.pc = "done" /\ sql_file.written)
    => (cli.exit = "0" <=> FailedToParse(sql_file.items, cli.dialect) = {})

RunEnded == cli.pc = "done" /\ Alive

AllValid == \A k \in 1..Len(validations) : validations[k].ok

\* C16: a generate run ends with code 1 whenever an error was recorded or a
\* validated file held a statement that failed to parse, and with code 0 only
\* otherwise; a validate run ends with code 1 exactly when the file is missing
\* or a statement of it failed to parse
C16_ExitCodes ==
    /\ (RunEnded /\ cli.cmd \in {"generate", "main"})
       => /\ cli.exit \in {"0", "1"}
          /\ cli.exit = "0" => (errors = <<>> /\ AllValid)
    /\ (RunEnded /\ cli.cmd = "validate")
       => /\ cli.exit \in {"0", "1"}
          /\ cli.exit = "1" <=>
               (~sql_file.written \/ FailedToParse(sql_file.items, "redshift") # {})

\* C17: in a generate run whose metadata was loaded, DML generation, when
\* requested, runs and writes its file (where the file can be written) whatever
\* became of DDL generation; after a load failure no further step runs
C17_OnlyLoadEndsEarly ==
    (cli.pc = "done" /\ cli.cmd \in {"generate", "main"})
    => /\ ret.load = "False" => called = {"load"}
       /\ (ret.load = "True" /\ cli.dml) => "dml" \in called
       /\ (ret.load = "True" /\ cli.dml /\ "dml" \notin env.unwritable) => dml_file.written

(***************************************************************************)
(* Constants                                                               *)
(***************************************************************************)
ConstantOnly(row) ==
    /\ ~IsSet(row.transformation)
    /\ ~IsSet(row.source_column)
    /\ IsSet(row.constant_value)

\* C19: a mapping with neither transformation nor source_column and a present
\* constant_value (0, false and the empty text included) resolves to the literal
\* of the constant; with no constant either it resolves to NULL
C19_ConstantLiteral ==
    DmlWritten =>
        \A ik \in Resolved :
            LET row == ResolvedRow(ik)
            IN /\ ConstantOnly(row) => ResolvedExpr(ik) = LiteralOf(row.constant_value)
               /\ (~IsSet(row.transformation) /\ ~IsSet(row.source_column)
                   /\ ResolvedExpr(ik) = <<"NULL">>) => ~IsSet(row.constant_value)

(***************************************************************************)
(* First row governs the group                                             *)
(***************************************************************************)
SameGroup(m, n) == m.target_schema = n.target_schema /\ m.target_table = n.target_table

\* the mapping of m's group with the smallest target_column_order
FirstOfGroup(M, m) ==
    M[CHOOSE j \in 1..Len(M) :
          /\ SameGroup(M[j], m)
          /\ \A k \in 1..Len(M) :
                 SameGroup(M[k], m) => M[j].target_column_order <= M[k].target_column_order]

IsFirst(M, j) == FirstOfGroup(M, M[j]) = M[j]

\* the sheet with the tag and the source of every row replaced by those of the
\* first row of its group: all sheets that differ only in these values of
\* non-first rows share it
Canon(M) ==
    [j \in 1..Len(M) |->
        [M[j] EXCEPT !.scd_type = FirstOfGroup(M, M[j]).scd_type,
                     !.source_schema = FirstOfGroup(M, M[j]).source_schema,
                     !.source_table = FirstOfGroup(M, M[j]).source_table]]

BlocksIn(items) ==
    { i \in 1..Len(items) :
        items[i].kind = "comment" /\ HasPrefix(items[i].lines[1], <<"Load:">>) }

EndIn(items, i) ==
    IF \E j \in BlocksIn(items) : j > i
    THEN (CHOOSE j \in BlocksIn(items) : j > i /\ \A m \in BlocksIn(items) : m > i => j <= m) - 1
    ELSE Len(items)

OpenersIn(items, i) == { items[k].lines[1][1] : k \in { n \in i..EndIn(items, i) : items[n].kind = "sql" } }

StrategyIn(items, i) ==
    IF "MERGE INTO" \in OpenersIn(items, i) THEN "Type1"
    ELSE IF {"UPDATE", "INSERT INTO"} \subseteq OpenersIn(items, i) THEN "Type2"
    ELSE IF "INSERT INTO" \in OpenersIn(items, i) THEN "Insert"
    ELSE "none"

\* the FROM lines of a block's statements
FromIn(items, i) ==
    UNION { { items[k].lines[n] : n \in { l \in 1..Len(items[k].lines) :
                                            items[k].lines[l][1] = "FROM" } } :
            k \in { n \in i..EndIn(items, i) : items[n].kind = "sql" } }

\* per group: the strategy chosen and the table read
Choices(items) ==
    { << items[i].lines[1][2], items[i].lines[1][4], StrategyIn(items, i), FromIn(items, i) >> :
        i \in BlocksIn(items) }

CanonRun ==
    IF impl = "pandas" THEN generate_dml_pd(Canon(xl_mappings))
    ELSE generate_dml_pl(Canon(xl_mappings),
                         [i \in 1..Len(unique_targets(xl_mappings)) |-> i])

\* the run on the first row of group p alone
FirstRowRun(p) ==
    LET first == FirstOfGroup(xl_mappings, [target_schema |-> p[1], target_table |-> p[2]])
    IN IF impl = "pandas" THEN generate_dml_pd(<<first>>)
       ELSE generate_dml_pl(<<first>>, <<1>>)

ChoicesFor(items, p) == { <<c[3], c[4]>> : c \in { d \in Choices(items) : d[1] = p[1] /\ d[2] = p[2] } }

\* C20: the strategy and the FROM table of every group are those its first row
\* alone would get; a sheet and the sheet that agrees with it on everything but
\* the scd_type, source_schema and source_table of non-first rows get the same
\* strategy and the same FROM table for every group, and the call neither fails
\* nor records an error because of the difference
C20_FirstRowGoverns ==
    (DmlRan /\ ~CanonRun.raised)
    => /\ ret.dml = "True"
       /\ dml_file.written
       /\ errors = CanonRun.errs
       /\ Choices(DmlItems) = Choices(CanonRun.scripts)
       /\ \A p \in TargetPairs :
              ChoicesFor(DmlItems, p) = ChoicesFor(FirstRowRun(p).scripts, p)

(***************************************************************************)
(* Groups without a business key                                           *)
(***************************************************************************)
GroupRows(p) ==
    SelectSeq(xl_mappings, LAMBDA m : m.target_schema = p[1] /\ m.target_table = p[2])

\* a group routed to Type1 or Type2 in which no mapping is flagged
KeylessGroup(p) ==
    /\ FirstOfGroup(xl_mappings, GroupRows(p)[1]).scd_type \in {PyStr("TYPE1"), PyStr("TYPE2")}
    /\ \A k \in 1..Len(GroupRows(p)) : GroupRows(p)[k].is_business_key # PyBool(TRUE)

KeylessBlock(i) == StrategyOf(i) \in {"Type1", "Type2"} /\ KeysOf(i) = <<>>

BlockItems(i) == SubSeq(DmlItems, i, BlockEnd(i))

\* the mappings a block was built from, as the sheet holds them
RowsOfBlock(i) ==
    SelectSeq(xl_mappings, LAMBDA m : m.target_column \in Range(TargetNames(LoadStmt(i))))

\* the block these mappings get when the sheet holds nothing else
AloneRun(rows) ==
    LET r == IF impl = "pandas" THEN generate_dml_pd(rows) ELSE generate_dml_pl(rows, <<1>>)
        at == CHOOSE k \in BlocksIn(r.scripts) : TRUE
    IN SubSeq(r.scripts, at, Len(r.scripts))

\* the lines that follow the test of tgt.is_current in the statements of a block
AfterCurrentTest(i) ==
    UNION { { DmlItems[k].lines[n + 1] :
                n \in { l \in 1..(Len(DmlItems[k].lines) - 1) :
                          HasPrefix(DmlItems[k].lines[l], <<"WHERE", "tgt", ".", "is_current">>) } } :
            k \in BlockStmts(i, "UPDATE") \cup BlockStmts(i, "INSERT INTO") }

\* C21: a Type1 or Type2 group without a business key does not make
\* generate_dml fail or record an error; its statements are emitted with an
\* empty join predicate (ON, or AND, followed by nothing), and every other
\* block is the block its mappings get without that group in the sheet
C21_KeylessGroupEmitted ==
    /\ (DmlRan /\ \E p \in TargetPairs : KeylessGroup(p))
       => ret.dml = "True" /\ dml_file.written /\ errors = <<>>
    /\ DmlWritten =>
         \A i \in LoadBlocks :
            /\ (KeylessBlock(i) /\ StrategyOf(i) = "Type1")
               => LoadStmt(i)[LineAt(LoadStmt(i), <<"ON">>)] = <<"ON">>
            /\ (KeylessBlock(i) /\ StrategyOf(i) = "Type2")
               => AfterCurrentTest(i) = { <<"AND">> }
            /\ (\E j \in LoadBlocks : KeylessBlock(j) /\ j # i)
               => BlockItems(i) = AloneRun(RowsOfBlock(i))

\* a Type1 block without keys next to the block of another group
C21_Witness ==
    /\ DmlWritten
    /\ \E i, j \in LoadBlocks :
          /\ i # j
          /\ KeylessBlock(i) /\ StrategyOf(i) = "Type1"
          /\ LoadStmt(i)[LineAt(LoadStmt(i), <<"ON">>)] = <<"ON">>
          /\ ~KeylessBlock(j)

(***************************************************************************)
(* Candidate statements                                                    *)
(***************************************************************************)
Cuts(items) == { k \in 1..Len(items) : items[k].kind = "semi" }

\* the text from a semicolon (or the start) to the next semicolon (or the end)
FragmentAt(items, a) ==
    SubSeq(items, a + 1,
           (CHOOSE b \in Cuts(items) \cup {Len(items) + 1} :
                a < b /\ \A c \in Cuts(items) : ~(a < c /\ c < b)) - 1)

IsCandidate(frag) == frag # <<>> /\ frag[1].kind # "comment" /\ len(frag) >= 10

\* the candidates of a text, in text order
CandidatesOf(items) ==
    LET starts == { a \in Cuts(items) \cup {0} : IsCandidate(FragmentAt(items, a)) }
    IN [k \in 1..Cardinality(starts) |-> FragmentAt(items, Ascending(starts)[k])]

\* C22: the validator cuts the text at every semicolon, hands to the parser
\* each fragment that is non-empty, does not open with a comment line and has
\* at least 10 characters, once and in text order, and counts each of them once:
\* valid count plus invalid count is the number of candidates
C22_Candidates ==
    \A k \in 1..Len(validations) :
        LET v == validations[k]
        IN /\ v.parsed = CandidatesOf(v.items)
           /\ v.valid_count + v.error_count = Len(CandidatesOf(v.items))
           /\ v.error_count = Cardinality({ n \in 1..Len(v.parsed) :
                                              v.parsed[n][1].lines[1][1] \in env.parser[v.dialect] })

\* a text with a statement of exactly 10 characters, which was parsed, a shorter
\* one and an empty fragment, which were not
C22_Witness ==
    \E k \in 1..Len(validations) :
        LET v == validations[k]
        IN /\ Len(v.parsed) = 1
           /\ len(v.parsed[1]) = 10
           /\ Cardinality(Cuts(v.items)) = 3
           /\ v.valid_count + v.error_count = 1

(***************************************************************************)
(* Diagnostics of the validator                                            *)
(***************************************************************************)
\* the numbers, counted as the validator counts, of the statements of a text
\* that the parser of the dialect rejects
InvalidNumbers(items, dialect) ==
    Ascending({ n \in 1..Len(statements(items)) :
                  /\ len(statements(items)[n]) >= 10
                  /\ statements(items)[n][1].lines[1][1] \in env.parser[dialect] })

\* C23: validating a generated file appends to the error list of the run one
\* diagnostic per statement that failed to parse, in statement order, each
\* carrying the number of its statement
C23_OneDiagnosticEach ==
    [][(Validated /\ LastValidation.file \in {"ddl", "dml"})
       => errors' = errors \o
            [k \in 1..Len(InvalidNumbers(LastValidation.items, LastValidation.dialect)) |->
                Error("Statement validation error",
                      <<InvalidNumbers(LastValidation.items, LastValidation.dialect)[k]>>)]]_vars

(***************************************************************************)
(* Order of the steps                                                      *)
(***************************************************************************)
CommandRun == cli.cmd \in {"generate", "main"}

FileOf(name) == IF name = "ddl" THEN ddl_file ELSE dml_file

\* the record sets a generate call needs are not held
NotLoaded(name) ==
    IF name = "ddl" THEN tables_df.isNone \/ columns_df.isNone ELSE mappings_df.isNone

\* C24: in a run of a command nothing is generated or written unless the load
\* succeeded before, a file is validated only after its own generation
\* succeeded, and a step whose toggle is off is not performed; a generate call
\* made while its metadata is not loaded records an error, returns failure and
\* writes no file
C24_StepOrder ==
    /\ CommandRun =>
         \A name \in {"ddl", "dml"} :
            /\ (name \in called \/ FileOf(name).written) => ret.load = "True"
            /\ ValidateStep(name) \in called => (ret[name] = "True" /\ FileOf(name).written)
            /\ ~cli[name] => (name \notin called /\ ~FileOf(name).written
                              /\ ValidateStep(name) \notin called)
            /\ ~cli.validate => (ValidateStep(name) \notin called /\ validations = <<>>)
            /\ \A k \in 1..Len(validations) :
                  validations[k].file = name => validations[k].items = FileOf(name).items
    /\ \A name \in {"ddl", "dml"} :
          (name \in called /\ NotLoaded(name))
          => /\ ret[name] = "False"
             /\ ~FileOf(name).written
             /\ \E k \in 1..Len(errors) :
                    errors[k].msg = (IF name = "ddl" THEN "Data not loaded"
                                     ELSE "Mappings not loaded")

\* a run with DDL switched off that generated and validated the DML file only
C24_Witness ==
    /\ CommandRun /\ cli.pc = "done" /\ ~cli.ddl /\ cli.dml /\ cli.validate
    /\ Len(validations) = 1 /\ validations[1].file = "dml"
    /\ "ddl" \notin called /\ ~ddl_file.written

(***************************************************************************)
(* The error list                                                          *)
(***************************************************************************)
IsPrefix(a, b) == Len(a) <= Len(b) /\ SubSeq(b, 1, Len(a)) = a

\* the call made in this step, if it was one of the generator's operations
Returned(op) == op \in called' \ called

\* a table of the loaded Tables sheet has no row in the loaded Columns sheet
SomeTableEmpty ==
    \E n \in 1..Len(tables_df.rows) :
        \A j \in 1..Len(columns_df.rows) :
            ~(columns_df.rows[j].table_name = tables_df.rows[n].table_name
              /\ columns_df.rows[j].schema_name = tables_df.rows[n].schema_name)

\* C25: no call of load_definitions, generate_ddl, generate_dml or the
\* validator removes, reorders or rewrites an entry of the error list: the list
\* before a step is a prefix of the list after it; a call that succeeds without
\* meeting a non-fatal condition leaves the list as it was
C25_AppendOnly ==
    [][/\ IsPrefix(errors, errors')
       /\ (Returned("load") /\ ret'.load = "True") => errors' = errors
       /\ (Returned("ddl") /\ ret'.ddl = "True" /\ ~SomeTableEmpty) => errors' = errors
       /\ (Returned("dml") /\ ret'.dml = "True") => errors' = errors
       /\ (Validated /\ LastValidation.ok) => errors' = errors]_vars

\* a list that took an entry from a validation on top of an earlier entry
C25_Witness ==
    /\ Len(errors) >= 2
    /\ errors[1].msg \in {"Validation error", "No columns defined for"}
    /\ errors[Len(errors)].msg \in {"Statement validation error", "Error loading Excel files"}

(***************************************************************************)
(* What the validator's filter lets through                                *)
(***************************************************************************)
Markers == {"BEGIN TRANSACTION", "COMMIT"}

\* the statements of a text other than the transaction markers
Substantial(items) ==
    { k \in 1..Len(items) : items[k].kind = "sql" /\ items[k].lines[1][1] \notin Markers }

\* C26: when a generated file is validated, every statement of it other than
\* BEGIN TRANSACTION and COMMIT is part of a fragment handed to the parser
C26_NothingFilteredOut ==
    \A k \in 1..Len(validations) :
        LET v == validations[k]
        IN v.file \in {"ddl", "dml"} =>
             \A n \in Substantial(v.items) :
                 \E m \in 1..Len(v.parsed) :
                     \E l \in 1..Len(v.parsed[m]) : v.parsed[m][l] = v.items[n]

(***************************************************************************)
(* A failed load                                                           *)
(***************************************************************************)
\* C27: after load_definitions returned failure the generator holds none of
\* the three record sets, and a generate_ddl or generate_dml call made on it
\* fails with its not-loaded error and writes no file
C27_LoadAllOrNothing ==
    ret.load = "False"
    => /\ tables_df.isNone /\ columns_df.isNone /\ mappings_df.isNone
       /\ \A name \in {"ddl", "dml"} :
             name \in called
             => /\ ret[name] = "False"
                /\ ~FileOf(name).written
                /\ errors[Len(errors)].msg \in {"Data not loaded", "Mappings not loaded"}

(***************************************************************************)
(* The UPDATE SET list                                                     *)
(***************************************************************************)
\* the lines of a MERGE from UPDATE SET up to WHEN NOT MATCHED THEN, joined
SetText(lines) ==
    LET u == LineAt(lines, <<"UPDATE SET">>)
        w == LineAt(lines, <<"WHEN NOT MATCHED THEN">>)
    IN SubSeq(lines[u], 2, Len(lines[u])) \o Flatten(SubSeq(lines, u + 1, w - 1))

\* C28: in every Type1 group with a business key the UPDATE SET list is a
\* comma-separated list without an empty item: it does not open or end with a
\* comma and holds no two commas in a row; when every mapped column is a
\* business key it is the assignment to tgt.updated_date alone
C28_SetListWellFormed ==
    DmlWritten =>
        \A i \in LoadBlocks :
            (StrategyOf(i) = "Type1" /\ KeysOf(i) # <<>>) =>
                LET text == SetText(LoadStmt(i))
                IN /\ text # <<>>
                   /\ text[1] # ","
                   /\ text[Len(text)] # ","
                   /\ \A n \in 1..(Len(text) - 1) : ~(text[n] = "," /\ text[n + 1] = ",")
                   /\ \A n \in 1..Len(SetItems(LoadStmt(i))) : SetItems(LoadStmt(i))[n] # <<>>
                   /\ NonKeysOf(i) = <<>> =>
                        text = <<"tgt", ".", "updated_date", "=", "GETDATE()">>

(***************************************************************************)
(* What the alias src exposes                                              *)
(***************************************************************************)
\* the source column names the mappings of a block name
SourceColumnsOf(i) ==
    { RowOf(c).source_column.v :
        c \in { d \in Range(TargetNames(LoadStmt(i))) : IsSet(RowOf(d).source_column) } }

InsertLines(i) == DmlItems[CHOOSE k \in BlockStmts(i, "INSERT INTO") : TRUE].lines

\* the lines of a statement after the line that closes the subselect as src
AfterSubselect(lines) ==
    SubSeq(lines, LineAt(lines, <<")", "AS", "src">>) + 1, Len(lines))

\* C29: every column read through the alias src is exposed by the relation
\* that src names there: in a Type1 MERGE and in a Type2 Expire statement the
\* subselect aliased src projects every column the statement reads from it; in
\* a Type2 Insert statement, where src is the source table, every src-qualified
\* name is a source column of the mappings
C29_SrcColumnsExposed ==
    DmlWritten =>
        \A i \in LoadBlocks :
            /\ StrategyOf(i) = "Type1" =>
                 \A n \in 1..Len(AfterSubselect(LoadStmt(i))) :
                     SrcRefs(AfterSubselect(LoadStmt(i))[n]) \subseteq Range(TargetNames(LoadStmt(i)))
            /\ StrategyOf(i) = "Type2" =>
                 /\ \A n \in 1..Len(AfterSubselect(ExpireLines(i))) :
                        SrcRefs(AfterSubselect(ExpireLines(i))[n])
                            \subseteq SrcRefs(ExpireLines(i)[LineAt(ExpireLines(i), <<"SELECT">>)])
                 /\ \A n \in 1..Len(InsertLines(i)) :
                        SrcRefs(InsertLines(i)[n]) \subseteq SourceColumnsOf(i)

(***************************************************************************)
(* The column list of an INSERT and the list that feeds it                 *)
(***************************************************************************)
Names(line) == SelectSeq(line, LAMBDA tok : tok \notin {",", "(", ")", "INSERT", "VALUES"})

Commas(line) == Cardinality({ k \in 1..Len(line) : line[k] = "," })

\* the target column list of the INSERT of a block
InsertColumns(i) ==
    IF StrategyOf(i) = "Type1"
    THEN Names(LoadStmt(i)[LineAt(LoadStmt(i), <<"INSERT", "(">>)])
    ELSE LET lines == InsertLines(i)
             inner == SubSeq(lines, 2, LineAt(lines, <<")">>) - 1)
         IN Names(Flatten(inner))

\* the number of entries of the VALUES list or of the SELECT list behind it
FeedCount(i) ==
    IF StrategyOf(i) = "Type1"
    THEN Commas(LoadStmt(i)[LineAt(LoadStmt(i), <<"VALUES", "(">>)]) + 1
    ELSE LineAt(InsertLines(i), <<"FROM">>) - LineAt(InsertLines(i), <<"SELECT">>) - 1

Distinct(s) == \A a, b \in 1..Len(s) : a # b => s[a] # s[b]

\* C30: the column list of every Type1 and Type2 INSERT names no column
\* twice and is as long as the VALUES or SELECT list that feeds it, whenever
\* the target columns of the group are distinct
C30_InsertListSound ==
    DmlWritten =>
        \A i \in LoadBlocks :
            (StrategyOf(i) \in {"Type1", "Type2"} /\ Distinct(TargetNames(LoadStmt(i))))
            => /\ Distinct(InsertColumns(i))
               /\ Len(InsertColumns(i)) = FeedCount(i)

====
